---- MODULE Spec2Model ----
(***************************************************************************)
(* Model of the xiapi crate (src/src/camera.rs, src/src/image.rs): the     *)
(* Camera / AcquisitionBuffer ownership state machine over the xiAPI       *)
(* driver, the Images borrowed from an AcquisitionBuffer, and the          *)
(* parameter accessors.                                                    *)
(*                                                                         *)
(* The driver (xiapi_sys) is the environment: every driver call returns a  *)
(* code drawn from RetCodes.  Rust's ownership rules are part of the       *)
(* program: a value that was moved or dropped is no longer held, a method  *)
(* taking `self` or `&mut self` cannot run while a borrow of the value is  *)
(* live, a method taking `&self` can.                                      *)
(***************************************************************************)
EXTENDS Integers, Sequences, FiniteSets, TLC

\* ---- bounds of the model
MaxHandles == 1      \* handles the driver hands out in one run
MaxImages == 2       \* Images of one AcquisitionBuffer alive at once
MaxVal == 1          \* parameter values are 0..MaxVal
MaxInc == 2          \* the driver's ROI increments are 0..MaxInc
MaxSel == 1          \* counter selectors are 0..MaxSel
Frac == 4            \* an f32 value is a whole number of 1/Frac: ticks
MaxTicks == 7        \* the f32 values callers pass while streaming are -1..MaxTicks ticks
MaxDim == 2          \* width and height of a view, and pixel coordinates, are 0..MaxDim
MaxPad == 1          \* padding_x of a view is 0..MaxPad
MaxBpSize == 4       \* bp_size of a view is 0..MaxBpSize or the bytes of the frame

\* ---- program constants
XI_OK == 0
XI_OFF == 0
XI_ON == 1
XI_INVALID_ARG == 11
\* u32::MAX, the timeout next_image passes for None, at the width of the
\* model's integers (2^31 - 1)
U32Max == 2147483647

Handles == 1..MaxHandles
NullHandle == 0
Vals == 0..MaxVal
ErrCodes == {1, 10}
RetCodes == {XI_OK} \cup ErrCodes
\* Option<u32>: <<>> is None, <<v>> is Some(v)
DevIds == {<< >>, <<1>>}
\* the bandwidth (MBit/s) callers pass to open_device_manual_bandwidth
Bandwidths == {1000}
\* Option<u32> timeouts of next_image
Timeouts == {<< >>, <<5000>>}
\* the parameters of the param! table the callers of Spec get and set
Keys == {"exposure", "width"}
\* the registers Camera::roi reads, in the order it reads them
RoiReadsOffsetsFirst == <<"offset_x", "offset_y", "width", "height">>
RoiReads == <<"width", "height", "offset_x", "offset_y">>
RoiKeys == {RoiReads[i] : i \in DOMAIN RoiReads}
\* the driver's read-only info registers of width: XI_PRM_INFO_INCREMENT,
\* XI_PRM_INFO_MIN, XI_PRM_INFO_MAX
InfoKeys == {"width:inc", "width:min", "width:max"}
\* the increment registers Camera::set_roi reads
RoiIncKeys == {k \o ":inc" : k \in RoiKeys}
\* XI_COUNTER_SELECTOR values, and the driver's counter behind each
Selectors == 0..MaxSel
CounterReg(sel) == "counter_value:" \o ToString(sel)
CounterKeys == {"counter_selector"} \cup {CounterReg(sel) : sel \in Selectors}
\* the f32 registers AcquisitionBuffer sets, and the increment the driver
\* reports for each
AnalogKeys == {"exposure", "gain"}
AnalogIncKeys == {k \o ":inc" : k \in AnalogKeys}
\* every register the model keeps
AllKeys == Keys \cup RoiKeys \cup InfoKeys \cup RoiIncKeys \cup CounterKeys
               \cup AnalogKeys \cup AnalogIncKeys
\* the registers Spec keeps: none of its operations reads gain back
SessionKeys == AllKeys \ {"gain"}
\* the threads that can use a Camera: the one that holds it. Camera keeps a
\* raw pointer (HANDLE), so it is neither Send nor Sync, and neither the
\* Camera nor a &Camera can reach another thread
Threads == {1}

VARIABLES
    dev,      \* driver: per handle [st, acq, closes]
    params,   \* driver: per handle the parameter registers
    autoBw,   \* driver: the global auto_bandwidth_calculation switch
    holder,   \* caller: the session value held for a handle
    images,   \* caller: live Images borrowed from the AcquisitionBuffer of a handle
    readers,  \* per thread, the read-only query it runs on its &Camera
    op,       \* the last wrapper operation: [name, h, shared]
    calls,    \* the driver calls the last operation issued, in order
    ret,      \* what the last operation returned to its caller
    img,      \* the XI_IMG of an Image<T> and the size of T: the view looked at
    out,      \* what the last method called on the view returned
    hist      \* history: how far a caller's program is and what happened so far

vars == <<dev, params, autoBw, holder, images, readers, op, calls, ret, img, out, hist>>

\* ---- values

Call(fn, h, key, val, rc) == [fn |-> fn, h |-> h, key |-> key, val |-> val, rc |-> rc]
Op(name, h) == [name |-> name, h |-> h, shared |-> IF h \in Handles THEN images[h] ELSE 0]
Ok(kind, h, val) == [ok |-> TRUE, kind |-> kind, h |-> h, val |-> val, err |-> XI_OK]
ErrInvalidArg(rc) == [ok |-> FALSE, kind |-> "Err", h |-> NullHandle, val |-> 0, err |-> XI_INVALID_ARG]
\* _ => Err(err)
Err(rc) == [ok |-> FALSE, kind |-> "Err", h |-> NullHandle, val |-> 0, err |-> rc]
Panic == [ok |-> FALSE, kind |-> "panic", h |-> NullHandle, val |-> 0, err |-> XI_OK]
Unit == [ok |-> TRUE, kind |-> "unit", h |-> NullHandle, val |-> 0, err |-> XI_OK]

\* match err as XI_RET::Type { XI_RET::XI_OK => .., _ => .. }: the cast of the
\* i32 code to u32 is one-to-one and sends 0 to 0, so the match is on rc itself
IsOk(rc) == rc = XI_OK

\* dev_id.unwrap_or(0)
UnwrapOrZero(o, d) == IF o = << >> THEN 0 ELSE o[1]
UnwrapOr(o, d) == IF o = << >> THEN d ELSE o[1]

\* ---- the driver's side of each call

FreeHandles == {h \in Handles : dev[h].st = "free"}
\* the handle xiOpenDevice writes through its out-pointer
FreshHandle == CHOOSE h \in FreeHandles : \A g \in FreeHandles : h <= g

DrvOpen(d, h) == [d EXCEPT ![h].st = "open"]

CloseDeviceLeak(d, h) == d
\* xiCloseDevice(self.device_handle)
CloseDevice(d, h) == [d EXCEPT ![h].st = "closed", ![h].closes = @ + 1]

DrvStart(d, h, rc) == IF IsOk(rc) THEN [d EXCEPT ![h].acq = TRUE] ELSE d
DrvStop(d, h, rc) == IF IsOk(rc) THEN [d EXCEPT ![h].acq = FALSE] ELSE d

\* the register a driver key names: the keys AcquisitionBuffer::set_exposure
\* and set_gain pass ("exposure: direct_update", "gain:direct_update") are the
\* driver's live-update keys of the registers of exposure and gain, the two
\* parameters that may be set while streaming
RegOf(key) ==
    CASE key = "exposure: direct_update" -> "exposure"
      [] key = "gain:direct_update" -> "gain"
      [] OTHER -> key

\* hardware quantization: the device takes the largest multiple of the
\* increment it reports that is not above the value; a register for which it
\* reports no increment (0) takes the value as it is
Quantise(v, inc) == IF inc = 0 THEN v ELSE v - (v % inc)

\* the value register reg of handle h takes when the driver is given v
Stored(p, h, reg, v) ==
    IF reg \in AnalogKeys THEN Quantise(v, p[h][reg \o ":inc"]) ELSE v

\* xiSetParam*: the register takes the value when the driver returns XI_OK
\* (of the keys the callers use, p keeps the registers the specification
\* reads back)
DrvSet(p, h, key, v, rc) ==
    IF IsOk(rc) /\ h \in Handles /\ RegOf(key) \in DOMAIN p[h]
    THEN [p EXCEPT ![h][RegOf(key)] = Stored(p, h, RegOf(key), v)]
    ELSE p

\* xiGetParam*: the register as it is
\* (counter_value is the counter that counter_selector selects)
DrvGet(p, h, key) ==
    IF key = "counter_value"
    THEN p[h][CounterReg(p[h]["counter_selector"])]
    ELSE p[h][key]

\* the driver call of Camera::param(&self): T::get_param(handle, key, &mut value);
\* fn is the driver function called, regs the registers after the call, value
\* what `value` holds after it
ParamCallSet(p, h, key, rc) ==
    [fn |-> "xiSetParam", regs |-> DrvSet(p, h, key, 0, rc), value |-> 0]
ParamCall(p, h, key, rc) ==
    [fn |-> "xiGetParam", regs |-> p, value |-> DrvGet(p, h, key)]

\* ---- byte strings: a sequence of pieces of text and Nul bytes

Nul == "NUL"
\* the XI_PRM_* constants of xiapi_sys: b"<name>\0"
XI_PRM(name) == <<name, Nul>>

RECURSIVE TrimStart(_)
TrimStart(b) == IF b # << >> /\ Head(b) = Nul THEN TrimStart(Tail(b)) ELSE b
RECURSIVE TrimEnd(_)
TrimEnd(b) == IF b # << >> /\ b[Len(b)] = Nul THEN TrimEnd(SubSeq(b, 1, Len(b) - 1)) ELSE b
\* param_utf8.trim_matches(char::from(0))
TrimNul(b) == TrimEnd(TrimStart(b))

RECURSIVE Text(_)
Text(b) == IF b = << >> THEN "" ELSE Head(b) \o Text(Tail(b))

\* param_suffix(param, info_modifier): format!("{}{}", trimmed param, modifier)
ParamSuffix(param, modifier) == TrimNul(param) \o modifier

\* CStr::from_bytes_with_nul(bytes): <<text>> when bytes ends with its only
\* Nul, << >> (Err) otherwise
CStrFromBytesWithNul(b) ==
    IF /\ b # << >>
       /\ b[Len(b)] = Nul
       /\ \A i \in 1..(Len(b) - 1) : b[i] # Nul
    THEN <<Text(SubSeq(b, 1, Len(b) - 1))>>
    ELSE << >>

\* Camera::set_param(&mut self, param, value) on registers p: the driver calls
\* made, the registers after them, and the Result
SetParam(p, h, param, v, rc) ==
    LET c == CStrFromBytesWithNul(param) IN
    IF c = << >>
    THEN [calls |-> << >>, regs |-> p, ret |-> Err(XI_INVALID_ARG)]
    ELSE [calls |-> <<Call("xiSetParam", h, c[1], v, rc)>>,
          regs |-> DrvSet(p, h, c[1], v, rc),
          ret |-> IF IsOk(rc) THEN Unit ELSE Err(rc)]

\* Camera::param(&self, param) on registers p
GetParam(p, h, param, rc) ==
    LET c == CStrFromBytesWithNul(param) IN
    IF c = << >>
    THEN [calls |-> << >>, regs |-> p, ret |-> Err(XI_INVALID_ARG)]
    ELSE LET d == ParamCall(p, h, c[1], rc) IN
         [calls |-> <<Call(d.fn, h, c[1], 0, rc)>>,
          regs |-> d.regs,
          ret |-> IF IsOk(rc) THEN Ok("value", h, d.value) ELSE Err(rc)]

\* `exposure as i32` on an f32 in ticks: the fraction is cut off, toward zero
\* (the values of the model are far from the ends of i32, where the cast
\* saturates)
AsI32(v) == IF v >= 0 THEN v - (v % Frac) ELSE 0 - ((0 - v) - ((0 - v) % Frac))

\* the setters impl AcquisitionBuffer offers, each with the bytes of the key
\* it passes to the driver, the value it passes when it takes none
\* (software_trigger: XI_SWITCH::XI_ON), and the cast it applies to its f32
BufferSettersAll ==
    { [name |-> "software_trigger", param |-> XI_PRM("trg_software"), fixed |-> <<XI_ON>>,
       cast |-> "none"],
      [name |-> "set_exposure", param |-> <<"exposure: direct_update", Nul>>, fixed |-> << >>,
       cast |-> "i32"],
      [name |-> "set_gain", param |-> ParamSuffix(XI_PRM("gain"), <<":direct_update", Nul>>),
       fixed |-> << >>, cast |-> "none"],
      [name |-> "set_width", param |-> XI_PRM("width"), fixed |-> << >>, cast |-> "none"] }
BufferSetters ==
    { [name |-> "software_trigger", param |-> XI_PRM("trg_software"), fixed |-> <<XI_ON>>,
       cast |-> "none"],
      [name |-> "set_exposure", param |-> <<"exposure: direct_update", Nul>>, fixed |-> << >>,
       cast |-> "i32"],
      [name |-> "set_gain", param |-> ParamSuffix(XI_PRM("gain"), <<":direct_update", Nul>>),
       fixed |-> << >>, cast |-> "none"] }

\* ---- ownership and borrowing

\* Image<'a, T> holds PhantomData<&'a T> with 'a the borrow of the
\* AcquisitionBuffer taken by next_image(&'a self)
BorrowedStatic(h) == FALSE
Borrowed(h) == images[h] > 0

\* what the caller holds after Camera::start_acquisition(self)
StartHolderKeep(rc) == IF IsOk(rc) THEN "AcquisitionBuffer" ELSE "Camera"
StartHolder(rc) == IF IsOk(rc) THEN "AcquisitionBuffer" ELSE "none"

\* what the caller holds after AcquisitionBuffer::stop_acquisition(self)
StopHolderKeep(rc) == "Camera"
StopHolder(rc) == IF IsOk(rc) THEN "Camera" ELSE "none"

\* ---- the view: Image<'a, T> { xi_img, pix_type }

NullPtr == 0
\* the XI_IMG_FORMAT values nb_channels names, and two of those it does not
KnownFormats == {"XI_MONO8", "XI_MONO16", "XI_RAW8", "XI_RAW16", "XI_RGB24", "XI_RGB32"}
Formats == KnownFormats \cup {"XI_RGB_PLANAR", "XI_FRM_TRANSPORT_DATA"}
\* size_of::<T>() of the pixel types u8, u16 and u32 / f32
ElemSizes == {1, 2, 4}

\* MaybeUninit::<XI_IMG>::zeroed() of next_image: every field 0 (format 0 is
\* XI_MONO8); esz is size_of::<T>() of the T the caller asked for
ZeroedImg == [bp |-> NullPtr, bp_size |-> 0, width |-> 0, height |-> 0,
              frm |-> "XI_MONO8", padding_x |-> 0, esz |-> 1]
NoHist == [pc |-> "none"]
NoOut == [fn |-> "none", kind |-> "none", x |-> 0, y |-> 0, addr |-> NullPtr, len |-> 0]

\* a thread that runs no query
Idle == [st |-> "idle", h |-> NullHandle, q |-> "", acc |-> << >>, prev |-> "",
         res |-> [ok |-> TRUE, val |-> << >>, err |-> XI_OK]]

Init ==
    /\ dev = [h \in Handles |-> [st |-> "free", acq |-> FALSE, closes |-> 0]]
    /\ params = [h \in Handles |-> [k \in SessionKeys |-> 0]]
    /\ readers = [t \in Threads |-> Idle]
    /\ autoBw = XI_ON
    /\ holder = [h \in Handles |-> "none"]
    /\ images = [h \in Handles |-> 0]
    /\ op = [name |-> "init", h |-> NullHandle, shared |-> 0]
    /\ calls = << >>
    /\ ret = Unit
    /\ img = ZeroedImg
    /\ out = NoOut
    /\ hist = NoHist

\* ---- operations

\* open_device(dev_id)
OpenDevice(dev_id, rc) ==
    /\ op' = Op("open_device", NullHandle)
    /\ IF IsOk(rc)
       THEN /\ FreeHandles # {}
            /\ LET h == FreshHandle IN
               /\ dev' = DrvOpen(dev, h)
               /\ holder' = [holder EXCEPT ![h] = "Camera"]
               /\ calls' = <<Call("xiOpenDevice", h, "", UnwrapOr(dev_id, 0), rc)>>
               /\ ret' = Ok("Camera", h, 0)
       ELSE /\ calls' = <<Call("xiOpenDevice", NullHandle, "", UnwrapOr(dev_id, 0), rc)>>
            /\ ret' = Err(rc)
            /\ UNCHANGED <<dev, holder>>
    /\ UNCHANGED <<params, autoBw, images>>

\* the value of the set_param after open_device: XI_SWITCH::XI_ON
ToggleLeftOff == XI_OFF
ToggleRestored == XI_ON

\* open_device_manual_bandwidth(dev_id, bandwidth)
OpenDeviceManualBandwidth(dev_id, bandwidth) ==
    /\ op' = Op("open_device_manual_bandwidth", NullHandle)
    /\ UNCHANGED <<params, images>>
    /\ \E rOff \in RetCodes :
         \* XI_PRM_AUTO_BANDWIDTH_CALCULATION is a C string: the first match
         \* never returns Err(XI_INVALID_ARG)
         LET bandwidth_param_c ==
                 CStrFromBytesWithNul(XI_PRM("auto_bandwidth_calculation"))[1]
             cOff == Call("xiSetParam", NullHandle, bandwidth_param_c, XI_OFF, rOff)
         IN
         IF ~IsOk(rOff)
         THEN \* err => return Err(err as i32)
              /\ calls' = <<cOff>>
              /\ ret' = Err(rOff)
              /\ UNCHANGED <<dev, holder, autoBw>>
         ELSE \E rOpen \in RetCodes, rOn \in RetCodes :
              /\ IsOk(rOpen) => FreeHandles # {}
              /\ LET h == IF IsOk(rOpen) THEN FreshHandle ELSE NullHandle
                     cOpen == Call("xiOpenDevice", h, "", UnwrapOr(dev_id, 0), rOpen)
                     cOn == Call("xiSetParam", NullHandle, bandwidth_param_c, ToggleRestored, rOn)
                     d1 == IF IsOk(rOpen) THEN DrvOpen(dev, h) ELSE dev
                 IN
                 IF ~IsOk(rOn)
                 THEN \* panic!: unwinding drops `cam`, the Result of open_device
                      /\ autoBw' = XI_OFF
                      /\ ret' = Panic
                      /\ UNCHANGED holder
                      /\ IF IsOk(rOpen)
                         THEN \E rcClose \in RetCodes :
                                /\ dev' = CloseDevice(d1, h)
                                /\ calls' = <<cOff, cOpen, cOn,
                                              Call("xiCloseDevice", h, "", 0, rcClose)>>
                         ELSE /\ dev' = d1
                              /\ calls' = <<cOff, cOpen, cOn>>
                 ELSE /\ autoBw' = ToggleRestored
                      /\ IF ~IsOk(rOpen)
                         THEN \* Err(err) => Err(err)
                              /\ ret' = Err(rOpen)
                              /\ calls' = <<cOff, cOpen, cOn>>
                              /\ UNCHANGED <<dev, holder>>
                         ELSE \E rLim \in RetCodes :
                              LET cLim == SetParam(params, h, XI_PRM("limit_bandwidth"),
                                                   bandwidth, rLim).calls[1]
                              IN
                              IF IsOk(rLim)
                              THEN /\ dev' = d1
                                   /\ holder' = [holder EXCEPT ![h] = "Camera"]
                                   /\ ret' = Ok("Camera", h, 0)
                                   /\ calls' = <<cOff, cOpen, cOn, cLim>>
                              ELSE \* `?` returns the error, `cam` is dropped
                                   \E rcClose \in RetCodes :
                                     /\ dev' = CloseDevice(d1, h)
                                     /\ ret' = Err(rLim)
                                     /\ calls' = <<cOff, cOpen, cOn, cLim,
                                                   Call("xiCloseDevice", h, "", 0, rcClose)>>
                                     /\ UNCHANGED holder

\* drop of a Camera held by the caller: impl Drop for Camera
DropCamera(h, rcClose) ==
    /\ holder[h] = "Camera"
    /\ op' = Op("drop_Camera", h)
    /\ dev' = CloseDevice(dev, h)
    /\ holder' = [holder EXCEPT ![h] = "none"]
    /\ calls' = <<Call("xiCloseDevice", h, "", 0, rcClose)>>
    /\ ret' = Unit
    /\ UNCHANGED <<params, autoBw, images>>

\* Camera::start_acquisition(self)
StartAcquisition(h, rc) ==
    /\ holder[h] = "Camera"
    /\ op' = Op("start_acquisition", h)
    /\ holder' = [holder EXCEPT ![h] = StartHolder(rc)]
    /\ ret' = IF IsOk(rc) THEN Ok("AcquisitionBuffer", h, 0) ELSE Err(rc)
    /\ IF StartHolder(rc) # "none"
       THEN /\ dev' = DrvStart(dev, h, rc)
            /\ calls' = <<Call("xiStartAcquisition", h, "", 0, rc)>>
       ELSE \* Err(err): `self` goes out of scope and is dropped
            \E rcClose \in RetCodes :
               /\ dev' = CloseDevice(DrvStart(dev, h, rc), h)
               /\ calls' = <<Call("xiStartAcquisition", h, "", 0, rc),
                             Call("xiCloseDevice", h, "", 0, rcClose)>>
    /\ UNCHANGED <<params, autoBw, images>>

\* AcquisitionBuffer::stop_acquisition(self)
StopAcquisition(h, rc) ==
    /\ holder[h] = "AcquisitionBuffer"
    /\ ~Borrowed(h)
    /\ op' = Op("stop_acquisition", h)
    /\ holder' = [holder EXCEPT ![h] = StopHolder(rc)]
    /\ ret' = IF IsOk(rc) THEN Ok("Camera", h, 0) ELSE Err(rc)
    /\ IF StopHolder(rc) # "none"
       THEN /\ dev' = DrvStop(dev, h, rc)
            /\ calls' = <<Call("xiStopAcquisition", h, "", 0, rc)>>
       ELSE \* Err(err): `self`, and the Camera in it, is dropped
            \E rcClose \in RetCodes :
               /\ dev' = CloseDevice(DrvStop(dev, h, rc), h)
               /\ calls' = <<Call("xiStopAcquisition", h, "", 0, rc),
                             Call("xiCloseDevice", h, "", 0, rcClose)>>
    /\ UNCHANGED <<params, autoBw, images>>

\* drop of an AcquisitionBuffer held by the caller: the struct has no Drop
\* of its own, its field `camera` is dropped
DropBuffer(h, rcClose) ==
    /\ holder[h] = "AcquisitionBuffer"
    /\ ~Borrowed(h)
    /\ op' = Op("drop_AcquisitionBuffer", h)
    /\ dev' = CloseDevice(dev, h)
    /\ holder' = [holder EXCEPT ![h] = "none"]
    /\ calls' = <<Call("xiCloseDevice", h, "", 0, rcClose)>>
    /\ ret' = Unit
    /\ UNCHANGED <<params, autoBw, images>>

\* AcquisitionBuffer::next_image(&'a self, timeout)
NextImageAbortsOnError(h, timeout, rc) ==
    /\ holder[h] = "AcquisitionBuffer"
    /\ op' = [name |-> "next_image", h |-> h, shared |-> images[h], timeout |-> timeout]
    /\ calls' = <<Call("xiGetImage", h, "", UnwrapOr(timeout, U32Max), rc)>>
    /\ IF IsOk(rc)
       THEN /\ images[h] < MaxImages
            /\ images' = [images EXCEPT ![h] = @ + 1]
            /\ ret' = Ok("Image", h, 0)
            /\ UNCHANGED dev
       ELSE /\ ret' = Err(rc)
            /\ dev' = DrvStop(dev, h, XI_OK)
            /\ UNCHANGED images
    /\ UNCHANGED <<params, autoBw, holder>>
NextImage(h, timeout, rc) ==
    /\ holder[h] = "AcquisitionBuffer"
    /\ op' = [name |-> "next_image", h |-> h, shared |-> images[h], timeout |-> timeout]
    /\ calls' = <<Call("xiGetImage", h, "", UnwrapOr(timeout, U32Max), rc)>>
    /\ IF IsOk(rc)
       THEN /\ images[h] < MaxImages
            /\ images' = [images EXCEPT ![h] = @ + 1]
            /\ ret' = Ok("Image", h, 0)
       ELSE /\ ret' = Err(rc)
            /\ UNCHANGED images
    /\ UNCHANGED <<dev, params, autoBw, holder>>

\* an Image of the AcquisitionBuffer of h goes out of scope
DropImage(h) ==
    /\ images[h] > 0
    /\ op' = Op("drop_Image", h)
    /\ images' = [images EXCEPT ![h] = @ - 1]
    /\ calls' = << >>
    /\ ret' = Unit
    /\ UNCHANGED <<dev, params, autoBw, holder>>

\* Camera::set_<prm>(&mut self, value), generated by param!
CameraSet(h, prm, v, rc) ==
    /\ holder[h] = "Camera"
    /\ op' = Op("Camera::set_param", h)
    /\ LET r == SetParam(params, h, XI_PRM(prm), v, rc) IN
       /\ calls' = r.calls
       /\ params' = r.regs
       /\ ret' = r.ret
    /\ UNCHANGED <<dev, autoBw, holder, images>>

\* Camera::<prm>(&self), generated by param!
CameraGet(h, prm, rc) ==
    /\ holder[h] = "Camera"
    /\ op' = Op("Camera::param", h)
    /\ LET r == GetParam(params, h, XI_PRM(prm), rc) IN
       /\ calls' = r.calls
       /\ params' = r.regs
       /\ ret' = r.ret
    /\ UNCHANGED <<dev, autoBw, holder, images>>

\* AcquisitionBuffer::software_trigger / set_exposure / set_gain (&mut self):
\* software_trigger goes through Camera::set_param, the other two call the
\* driver with a key that always is a C string
BufferSet(h, s, v, rc) ==
    /\ holder[h] = "AcquisitionBuffer"
    /\ ~Borrowed(h)
    /\ s \in BufferSetters
    /\ s.fixed # << >> => v = 0
    /\ op' = [name |-> s.name, h |-> h, shared |-> images[h], v |-> v]
    /\ LET r == SetParam(params, h, s.param,
                         UnwrapOr(s.fixed, IF s.cast = "i32" THEN AsI32(v) ELSE v), rc) IN
       /\ calls' = r.calls
       /\ params' = r.regs
       /\ ret' = r.ret
    /\ UNCHANGED <<dev, autoBw, holder, images>>

SessionNext ==
    \/ \E d \in DevIds, rc \in RetCodes : OpenDevice(d, rc)
    \/ \E d \in DevIds, bw \in Bandwidths : OpenDeviceManualBandwidth(d, bw)
    \/ \E h \in Handles, rc \in RetCodes : DropCamera(h, rc)
    \/ \E h \in Handles, rc \in RetCodes : StartAcquisition(h, rc)
    \/ \E h \in Handles, rc \in RetCodes : StopAcquisition(h, rc)
    \/ \E h \in Handles, rc \in RetCodes : DropBuffer(h, rc)
    \/ \E h \in Handles, t \in Timeouts, rc \in RetCodes : NextImage(h, t, rc)
    \/ \E h \in Handles : DropImage(h)
    \/ \E h \in Handles, k \in Keys, v \in Vals, rc \in RetCodes : CameraSet(h, k, v, rc)
    \/ \E h \in Handles, k \in Keys, rc \in RetCodes : CameraGet(h, k, rc)
    \/ \E h \in Handles, s \in BufferSettersAll, v \in Vals, rc \in RetCodes : BufferSet(h, s, v, rc)

Next == SessionNext /\ UNCHANGED <<readers, img, out, hist>>

Spec == Init /\ [][Next]_vars

\* ---- read-only queries on a Camera

\* the read-only methods of Camera and the driver keys each reads, in order:
\* Camera::roi, the getter param! generates for width, and its
\* width_increment / width_minimum / width_maximum (param_info)
QueryNames == {"roi", "width", "width_increment", "width_minimum", "width_maximum"}
QueryKeys(q) ==
    CASE q = "roi" -> [i \in DOMAIN RoiReads |-> XI_PRM(RoiReads[i])]
      [] q = "width" -> <<XI_PRM("width")>>
      [] q = "width_increment" -> <<ParamSuffix(XI_PRM("width"), <<":inc", Nul>>)>>
      [] q = "width_minimum" -> <<ParamSuffix(XI_PRM("width"), <<":min", Nul>>)>>
      [] q = "width_maximum" -> <<ParamSuffix(XI_PRM("width"), <<":max", Nul>>)>>

\* the value a query returns from the values it read, in the order read:
\* Roi { offset_x, offset_y, width, height } for roi, the value itself otherwise
QueryResult(q, acc) ==
    IF q = "roi" THEN <<acc[3], acc[4], acc[1], acc[2]>> ELSE acc

\* thread t, running query q on the Camera of h with the values acc read so
\* far, makes its next driver call, which returns rc; prev is the query the
\* thread completed before this one
ReadNext(t, h, q, acc, prev, rc) ==
    LET r == GetParam(params, h, QueryKeys(q)[Len(acc) + 1], rc)
        acc2 == Append(acc, r.ret.val)
        mine == IF ~r.ret.ok
                THEN \* the `?` of roi, the Err(err) of param: the thread is left
                     \* with the code alone
                     [st |-> "done", h |-> h, q |-> "", acc |-> << >>, prev |-> prev,
                      res |-> [ok |-> FALSE, val |-> << >>, err |-> r.ret.err]]
                ELSE IF Len(acc2) = Len(QueryKeys(q))
                THEN [st |-> "done", h |-> h, q |-> q, acc |-> << >>, prev |-> prev,
                      res |-> [ok |-> TRUE, val |-> QueryResult(q, acc2), err |-> XI_OK]]
                ELSE [st |-> "run", h |-> h, q |-> q, acc |-> acc2, prev |-> prev,
                      res |-> Idle.res]
    IN
    /\ params' = r.regs
    /\ calls' = r.calls
    /\ readers' = [readers EXCEPT ![t] = mine]
    /\ UNCHANGED <<dev, autoBw, holder, images, op, ret>>

\* thread t calls the read-only method q on its &Camera of h, the query it
\* made before, if any, having returned
QueryCall(t, h, q, rc) ==
    /\ holder[h] = "Camera"
    /\ readers[t].st # "run"
    /\ ReadNext(t, h, q, << >>, readers[t].q, rc)

\* thread t goes on with the query it is in
QueryStep(t, rc) ==
    /\ readers[t].st = "run"
    /\ ReadNext(t, readers[t].h, readers[t].q, readers[t].acc, readers[t].prev, rc)

\* a Camera was opened; its ROI registers hold what the device
\* was left with
InitQuery ==
    /\ LET h == CHOOSE g \in Handles : \A f \in Handles : g <= f IN
         /\ dev = [g \in Handles |->
                     [st |-> IF g = h THEN "open" ELSE "free", acq |-> FALSE, closes |-> 0]]
         /\ holder = [g \in Handles |-> IF g = h THEN "Camera" ELSE "none"]
         /\ \E roi \in [RoiKeys -> Vals] :
              params = [g \in Handles |-> [k \in AllKeys |->
                          IF g = h /\ k \in RoiKeys THEN roi[k]
                          ELSE IF g = h /\ k = "width:max" THEN MaxVal
                          ELSE 0]]
         /\ op = [name |-> "open_device", h |-> NullHandle, shared |-> 0]
         /\ calls = <<Call("xiOpenDevice", h, "", 0, XI_OK)>>
         /\ ret = Ok("Camera", h, 0)
    /\ autoBw = XI_ON
    /\ images = [h \in Handles |-> 0]
    /\ readers = [t \in Threads |-> Idle]
    /\ img = ZeroedImg
    /\ out = NoOut
    /\ hist = NoHist

QueryNext ==
    \/ \E t \in Threads, h \in Handles, q \in QueryNames, rc \in RetCodes : QueryCall(t, h, q, rc)
    \/ \E t \in Threads, rc \in RetCodes : QueryStep(t, rc)

NextQuery == QueryNext /\ UNCHANGED <<img, out, hist>>

SpecQuery == InitQuery /\ [][NextQuery]_vars

\* what query q returns when it runs alone on the registers p of handle h
Sequential(q, p, h) ==
    QueryResult(q, [i \in DOMAIN QueryKeys(q) |-> p[h][Text(TrimNul(QueryKeys(q)[i]))]])

CallsOf(fn) == {i \in DOMAIN calls : calls[i].fn = fn}

\* C1: every handle a successful driver open returned is passed to the driver
\* close call exactly once: not at all while a session owns it, once and only
\* once when no session owns it any more, whatever path destroyed the session.
C1_ClosedExactlyOnce ==
    \A h \in Handles :
        /\ dev[h].closes <= 1
        /\ dev[h].st = "free" => (holder[h] = "none" /\ dev[h].closes = 0)
        /\ holder[h] # "none" => (dev[h].st = "open" /\ dev[h].closes = 0)
        /\ (dev[h].st # "free" /\ holder[h] = "none") => dev[h].closes = 1

\* a start_acquisition failed and its handle has been closed
C1_Witness ==
    /\ op.name = "start_acquisition"
    /\ ~ret.ok
    /\ dev[op.h].closes = 1

\* C2: dropping an AcquisitionBuffer issues the driver end-acquisition call on
\* its handle before the driver close call on that handle.
C2_DropStopsBeforeClose ==
    op.name = "drop_AcquisitionBuffer" =>
        \E i \in CallsOf("xiStopAcquisition"), j \in CallsOf("xiCloseDevice") :
            /\ i < j
            /\ calls[i].h = op.h
            /\ calls[j].h = op.h

\* C3: while the caller holds a Camera for a handle, the driver is not
\* acquiring on that handle; a Camera is returned only by an open or by a
\* stop_acquisition whose driver calls returned OK, and none is held for the
\* handle once start_acquisition has been called on it.
C3_CameraNotAcquiring ==
    /\ \A h \in Handles : holder[h] = "Camera" => ~dev[h].acq
    /\ (ret.ok /\ ret.kind = "Camera") =>
          /\ op.name \in {"open_device", "open_device_manual_bandwidth", "stop_acquisition"}
          /\ \A i \in DOMAIN calls : calls[i].rc = XI_OK
    /\ op.name = "start_acquisition" => holder[op.h] # "Camera"

\* a stop_acquisition handed the Camera back
C3_Witness ==
    /\ op.name = "stop_acquisition"
    /\ ret.ok
    /\ holder[op.h] = "Camera"

\* C4: start_acquisition issues exactly one driver begin-acquisition call, on
\* the handle of the session; on OK the caller holds an AcquisitionBuffer on
\* that handle, still open, and on any other code the caller gets that code
\* and holds no session for the handle.
C4_StartAcquisition ==
    op.name = "start_acquisition" =>
        /\ Cardinality(CallsOf("xiStartAcquisition")) = 1
        /\ calls[1].fn = "xiStartAcquisition"
        /\ calls[1].h = op.h
        /\ IF calls[1].rc = XI_OK
           THEN /\ ret = Ok("AcquisitionBuffer", op.h, 0)
                /\ holder[op.h] = "AcquisitionBuffer"
                /\ dev[op.h].st = "open"
                /\ Len(calls) = 1
           ELSE /\ ~ret.ok
                /\ ret.kind = "Err"
                /\ ret.err = calls[1].rc
                /\ holder[op.h] = "none"

\* a start_acquisition returned the driver's error code
C4_Witness ==
    /\ op.name = "start_acquisition"
    /\ ret.kind = "Err"
    /\ ret.err = 10
    /\ holder[op.h] = "none"

\* C5: stop_acquisition issues exactly one driver end-acquisition call; on OK
\* it returns the Camera of the same handle, and on any other code it returns
\* that code and the caller holds no session for the handle.
C5_StopAcquisition ==
    op.name = "stop_acquisition" =>
        /\ Cardinality(CallsOf("xiStopAcquisition")) = 1
        /\ calls[1].fn = "xiStopAcquisition"
        /\ calls[1].h = op.h
        /\ IF calls[1].rc = XI_OK
           THEN /\ ret = Ok("Camera", op.h, 0)
                /\ holder[op.h] = "Camera"
                /\ dev[op.h].st = "open"
                /\ Len(calls) = 1
           ELSE /\ ~ret.ok
                /\ ret.kind = "Err"
                /\ ret.err = calls[1].rc
                /\ holder[op.h] = "none"

\* a stop_acquisition returned the driver's error code
C5_Witness ==
    /\ op.name = "stop_acquisition"
    /\ ret.kind = "Err"
    /\ ret.err = 10
    /\ holder[op.h] = "none"

\* C6: while the caller holds the AcquisitionBuffer of a handle, every
\* parameter write the last operation sent to the driver on that handle is one
\* of the allow-listed ones: exposure, gain, software trigger.
C6_StreamingAllowList ==
    \A i \in CallsOf("xiSetParam") :
        (calls[i].h \in Handles /\ holder[calls[i].h] = "AcquisitionBuffer") =>
            calls[i].key \in {"exposure: direct_update", "gain:direct_update", "trg_software"}

\* the exposure was set through an AcquisitionBuffer
C6_Witness ==
    /\ op.name = "set_exposure"
    /\ ret.ok
    /\ holder[op.h] = "AcquisitionBuffer"
    /\ CallsOf("xiSetParam") # {}

\* C7: an Image is live only while the AcquisitionBuffer it was fetched from
\* is held: stop_acquisition and the drop of the buffer happen only when no
\* Image borrowed from it is outstanding.
C7_NoImageOutlivesBuffer ==
    /\ \A h \in Handles : images[h] > 0 => holder[h] = "AcquisitionBuffer"
    /\ op.name \in {"stop_acquisition", "drop_AcquisitionBuffer"} => op.shared = 0

\* an Image was fetched and is live
C7_Witness ==
    /\ op.name = "next_image"
    /\ ret.ok
    /\ images[op.h] > 0

\* C8: at most one Image of an AcquisitionBuffer is live at any time, so none
\* from an earlier fetch is readable after a later fetch.
C8_OneLiveImage ==
    \A h \in Handles : images[h] <= 1

\* C9: a parameter set, a frame fetch and a state transition each run only
\* with exclusive access to the session: no shared borrow of the session is
\* live when the operation is called.
C9_MutationExclusive ==
    op.name \in {"Camera::set_param", "set_exposure", "set_gain", "software_trigger",
                 "next_image", "start_acquisition", "stop_acquisition"}
        => op.shared = 0

\* ---- Image<T>: pixel, data, nb_channels

\* Image::nb_channels(&self)
NbChannelsRgb32As3(frm) ==
    CASE frm \in {"XI_MONO8", "XI_MONO16", "XI_RAW8", "XI_RAW16"} -> 1
      [] frm \in {"XI_RGB24", "XI_RGB32"} -> 3
      [] OTHER -> 0
NbChannels(frm) ==
    CASE frm = "XI_MONO8" -> 1
      [] frm = "XI_MONO16" -> 1
      [] frm = "XI_RAW8" -> 1
      [] frm = "XI_RAW16" -> 1
      [] frm = "XI_RGB24" -> 3
      [] frm = "XI_RGB32" -> 4
      [] OTHER -> 0

\* the bounds check of pixel
OutOfBoundsOffByOne(i, x, y) == x > i.width \/ y > i.height
OutOfBounds(i, x, y) == x >= i.width \/ y >= i.height

\* stride: the total length of a row in bytes
StrideNoPadding(i) == i.width * i.esz * NbChannels(i.frm)
Stride(i) == i.width * i.esz * NbChannels(i.frm) + i.padding_x

\* offset: the byte offset of pixel (x, y) from the buffer
PixelOffset(i, x, y) == (Stride(i) * y) + (x * i.esz * NbChannels(i.frm))

\* Option<&T>: None, or Some(the reference at address addr)
None(x, y) == [fn |-> "pixel", kind |-> "None", x |-> x, y |-> y, addr |-> NullPtr, len |-> 0]
Some(x, y, addr) == [fn |-> "pixel", kind |-> "Some", x |-> x, y |-> y, addr |-> addr, len |-> 0]

\* Image::pixel(&self, x, y); pixel_pointer.as_ref() is None for a null
\* pointer alone
PixelOf(i, x, y) ==
    IF i.bp = NullPtr THEN None(x, y)
    ELSE IF OutOfBounds(i, x, y) THEN None(x, y)
    ELSE IF i.bp + PixelOffset(i, x, y) = NullPtr THEN None(x, y)
    ELSE Some(x, y, i.bp + PixelOffset(i, x, y))

\* the length of the slice data() builds
DataLengthComputed(i) == i.width * i.height * NbChannels(i.frm)
DataLength(i) ==
    IF i.bp_size # 0
    THEN i.bp_size \div i.esz
    ELSE i.width * i.height * NbChannels(i.frm)

\* Image::data(&'a self): from_raw_parts(bp, length). On a null bp the call
\* is undefined behaviour: the build either hands out the slice or, with the
\* precondition checks of from_raw_parts compiled in, aborts
DataOutcomes(i) == IF i.bp = NullPtr THEN {"slice", "abort"} ELSE {"slice"}
DataOf(i, kind) ==
    [fn |-> "data", kind |-> kind, x |-> 0, y |-> 0, addr |-> i.bp,
     len |-> IF kind = "slice" THEN DataLength(i) ELSE 0]

\* the address of data()[k]
ElemAddr(i, k) == i.bp + (k * i.esz)

\* the bytes of a frame of `height` rows
FrameBytes(i) == i.height * Stride(i)

\* the bytes one pixel of the format takes in the frame the driver delivers
BytesPerPixel(frm) ==
    CASE frm \in {"XI_MONO8", "XI_RAW8"} -> 1
      [] frm \in {"XI_MONO16", "XI_RAW16"} -> 2
      [] frm = "XI_RGB24" -> 3
      [] frm = "XI_RGB32" -> 4
      [] OTHER -> 0

\* the byte length of the frame the driver delivers: `height` rows of `width`
\* pixels of the format plus the row padding
DeliveredBytes(i) == i.height * (i.width * BytesPerPixel(i.frm) + i.padding_x)

\* a frame as the driver delivers it: a buffer of `height` rows of `width`
\* pixels of the format plus the row padding, and bp_size its byte length
DeliveredFrame(i) ==
    /\ i.bp # NullPtr
    /\ i.frm \in KnownFormats
    /\ i.bp_size # 0
    /\ i.bp_size = DeliveredBytes(i)

Ptrs == {NullPtr, 64}

\* the caller calls pixel(x, y) on the view it holds
Pixel(x, y) ==
    /\ out' = PixelOf(img, x, y)
    /\ UNCHANGED <<dev, params, autoBw, holder, images, readers, op, calls, ret, img, hist>>

\* the caller calls data() on the view it holds
Data(kind) ==
    /\ kind \in DataOutcomes(img)
    /\ out' = DataOf(img, kind)
    /\ UNCHANGED <<dev, params, autoBw, holder, images, readers, op, calls, ret, img, hist>>

\* next_image returned Ok(image) to a caller that asked for a T of esz bytes:
\* the XI_IMG is as xiGetImage left it
InitImage ==
    /\ LET h == CHOOSE g \in Handles : \A f \in Handles : g <= f IN
         /\ dev = [g \in Handles |->
                     [st |-> IF g = h THEN "open" ELSE "free",
                      acq |-> (g = h), closes |-> 0]]
         /\ holder = [g \in Handles |-> IF g = h THEN "AcquisitionBuffer" ELSE "none"]
         /\ images = [g \in Handles |-> IF g = h THEN 1 ELSE 0]
         /\ op = [name |-> "next_image", h |-> h, shared |-> 0]
         /\ calls = <<Call("xiGetImage", h, "", U32Max, XI_OK)>>
         /\ ret = Ok("Image", h, 0)
    /\ params = [g \in Handles |-> [k \in AllKeys |-> 0]]
    /\ autoBw = XI_ON
    /\ readers = [t \in Threads |-> Idle]
    /\ \E bp \in Ptrs, w \in 0..MaxDim, hgt \in 0..MaxDim, frm \in Formats,
          pad \in 0..MaxPad, esz \in ElemSizes :
         LET i == [bp |-> bp, bp_size |-> 0, width |-> w, height |-> hgt,
                   frm |-> frm, padding_x |-> pad, esz |-> esz]
         IN \E size \in (0..MaxBpSize) \cup {FrameBytes(i), DeliveredBytes(i)} :
              img = [i EXCEPT !.bp_size = size]
    /\ out = NoOut
    /\ hist = NoHist

NextImageView ==
    \/ \E x \in 0..MaxDim, y \in 0..MaxDim : Pixel(x, y)
    \/ \E kind \in {"slice", "abort"} : Data(kind)

SpecImage == InitImage /\ [][NextImageView]_vars

\* ---- claims on Image<T>

\* C11: pixel(x, y) returns None, with no address computed, for every (x, y)
\* with x >= width or y >= height and for every (x, y) when the buffer pointer
\* is null; it has no outcome other than None and Some.
C11_PixelAbsentOutOfRange ==
    out.fn = "pixel" =>
        /\ out.kind \in {"None", "Some"}
        /\ (img.bp = NullPtr \/ out.x >= img.width \/ out.y >= img.height) =>
               (out.kind = "None" /\ out.addr = NullPtr)
C11_Witness ==
    /\ out.fn = "pixel"
    /\ img.bp # NullPtr
    /\ img.width > 0
    /\ out.x = img.width
    /\ out.y < img.height
    /\ out.kind = "None"

\* C12: with a non-null buffer pointer, width W, height H, channel count C,
\* element size E and row padding P, pixel(x, y) for x < W and y < H is the
\* element at byte offset y*(W*E*C+P) + x*E*C from the buffer base.
C12_PixelAddress ==
    (out.fn = "pixel" /\ img.bp # NullPtr /\ out.x < img.width /\ out.y < img.height) =>
        LET W == img.width
            E == img.esz
            C == NbChannels(img.frm)
            P == img.padding_x
        IN /\ out.kind = "Some"
           /\ out.addr - img.bp = out.y * (W * E * C + P) + out.x * E * C
C12_Witness ==
    /\ out.fn = "pixel"
    /\ out.kind = "Some"
    /\ img.width = MaxDim
    /\ img.height = MaxDim
    /\ out.x = img.width - 1
    /\ out.y = img.height - 1
    /\ img.padding_x > 0
    /\ img.frm = "XI_RGB24"
    /\ img.esz = 2

\* C13: data() yields a slice whose length is bp_size / size_of::<T>()
\* (integer division) when the reported bp_size is nonzero, and
\* width * height * channel count when bp_size is zero.
C13_DataLength ==
    out.fn = "data" =>
        /\ img.bp # NullPtr => out.kind = "slice"
        /\ (out.kind = "slice" /\ img.bp_size # 0) =>
               /\ out.len * img.esz <= img.bp_size
               /\ img.bp_size < (out.len + 1) * img.esz
        /\ (out.kind = "slice" /\ img.bp_size = 0) =>
               out.len = img.width * img.height * NbChannels(img.frm)
C13_Witness ==
    /\ out.fn = "data"
    /\ out.kind = "slice"
    /\ img.bp # NullPtr
    /\ img.bp_size = 3
    /\ img.esz = 2
    /\ out.len = 1
    /\ img.width * img.height * NbChannels(img.frm) > 1

\* the table of channel counts C14 states
C14_Table(frm) ==
    IF frm \in {"XI_MONO8", "XI_MONO16", "XI_RAW8", "XI_RAW16"} THEN 1
    ELSE IF frm = "XI_RGB24" THEN 3
    ELSE IF frm = "XI_RGB32" THEN 4
    ELSE 0

\* C14 as stated: the channel count is 1 for mono 8/16 and raw 8/16, 3 for
\* 24-bit colour, 4 for 32-bit colour and 0 otherwise, and data() of a view
\* whose format is unrecognized is empty.
C14_UnrecognizedFormatEmpty ==
    (out.fn = "data" /\ out.kind = "slice") =>
        /\ img.bp_size = 0 => out.len = img.width * img.height * C14_Table(img.frm)
        /\ img.frm \notin KnownFormats => out.len = 0

\* C14 amended: the channel count is as the table says, and data() of a view
\* whose format is unrecognized and whose reported bp_size is zero is empty.
C14_UnrecognizedFormatEmptyWhenNoSize ==
    (out.fn = "data" /\ out.kind = "slice" /\ img.bp_size = 0) =>
        /\ out.len = img.width * img.height * C14_Table(img.frm)
        /\ img.frm \notin KnownFormats => out.len = 0
C14_Witness ==
    /\ out.fn = "data"
    /\ out.kind = "slice"
    /\ img.bp # NullPtr
    /\ img.bp_size = 0
    /\ img.frm = "XI_RGB_PLANAR"
    /\ img.width = MaxDim
    /\ img.height = MaxDim
    /\ out.len = 0

\* C15: for a fetched view with C channels and every x < width, pixel(x, 0)
\* is the element data()[x*C], whatever the row padding and whatever the
\* element type T the caller fetched the view with.
C15_PixelIsDataElement ==
    (out.fn = "pixel" /\ DeliveredFrame(img) /\ out.y = 0 /\ out.x < img.width) =>
        /\ out.kind = "Some"
        /\ out.x * NbChannels(img.frm) < DataLength(img)
        /\ out.addr = ElemAddr(img, out.x * NbChannels(img.frm))

\* ---- Camera::set_roi, Camera::roi, Camera::counter

\* the one element of a singleton set
The(S) == CHOOSE x \in S : TRUE

\* the driver calls of one method so far: the registers, the calls, whether a
\* `?` has returned yet (ret.ok: not yet), the value the last get read, and
\* the values the method wrote to the ROI registers
Run0(p) == [regs |-> p, calls |-> << >>, ret |-> Unit, val |-> 0,
            wrote |-> [k \in RoiKeys |-> 0]]

\* self.set_<prm>(v)?
TrySet(s0, h, prm, v0, rc) ==
    The({ IF ~s.ret.ok THEN s
          ELSE LET r == SetParam(s.regs, h, XI_PRM(prm), v, rc) IN
               [regs |-> r.regs, calls |-> s.calls \o r.calls, ret |-> r.ret,
                val |-> s.val,
                wrote |-> IF prm \in RoiKeys THEN [s.wrote EXCEPT ![prm] = v] ELSE s.wrote]
          : s \in {s0}, v \in {v0} })

\* self.<prm>()?
TryGet(s0, h, prm, rc) ==
    The({ IF ~s.ret.ok THEN s
          ELSE LET r == GetParam(s.regs, h, XI_PRM(prm), rc) IN
               [regs |-> r.regs, calls |-> s.calls \o r.calls,
                ret |-> IF r.ret.ok THEN Unit ELSE r.ret, val |-> r.ret.val,
                wrote |-> s.wrote]
          : s \in {s0} })

\* self.<prm>_increment()?: param_info(XI_PRM_<prm>, XI_PRM_INFO_INCREMENT)
TryIncrement(s0, h, prm, rc) ==
    The({ IF ~s.ret.ok THEN s
          ELSE LET r == GetParam(s.regs, h, ParamSuffix(XI_PRM(prm), <<":inc", Nul>>), rc) IN
               [regs |-> r.regs, calls |-> s.calls \o r.calls,
                ret |-> IF r.ret.ok THEN Unit ELSE r.ret, val |-> r.ret.val,
                wrote |-> s.wrote]
          : s \in {s0} })

\* v - (v % inc) on u32
RoundDown(v, inc) == v - (v % inc)

\* let <prm> = v - (v % <prm>_inc); self.set_<prm>(<prm>)?, the increment
\* being the value read last; the remainder by zero panics
TrySetRounded(s0, h, prm, v, rc) ==
    The({ IF ~s.ret.ok THEN s
          ELSE IF s.val = 0 THEN [s EXCEPT !.ret = Panic]
          ELSE TrySet(s, h, prm, RoundDown(v, s.val), rc)
          : s \in {s0} })

\* the return codes of the driver calls of one method, in order: all XI_OK, or
\* the fail-th one rc
MaxCalls == 10
Rcs(fail, rc) == [i \in 1..MaxCalls |-> IF i = fail THEN rc ELSE XI_OK]

MkRoi(ox, oy, w, hgt) == [offset_x |-> ox, offset_y |-> oy, width |-> w, height |-> hgt]

\* the Roi set_roi returns for the request roi: actual_roi, built from the
\* values it wrote
RequestedRoi(roi, ox, oy, w, hgt) == roi
ActualRoi(roi, ox, oy, w, hgt) == MkRoi(ox, oy, w, hgt)

\* Ok(actual_roi), unless a `?` returned before
OkActualRoi(s0, h, roi) ==
    The({ IF s.ret.ok
          THEN [s EXCEPT !.ret = Ok("Roi", h, ActualRoi(roi, s.wrote["offset_x"],
                                        s.wrote["offset_y"], s.wrote["width"],
                                        s.wrote["height"]))]
          ELSE s
          : s \in {s0} })

\* Camera::set_roi(&mut self, roi) when the driver returns rcs
SetRoiSizeLast(p, h, roi, rcs) ==
    LET s1 == TrySet(Run0(p), h, "offset_x", 0, rcs[1])
        s2 == TrySet(s1, h, "offset_y", 0, rcs[2])
        s3 == TryIncrement(s2, h, "offset_x", rcs[3])
        s4 == TrySetRounded(s3, h, "offset_x", roi.offset_x, rcs[4])
        s5 == TryIncrement(s4, h, "offset_y", rcs[5])
        s6 == TrySetRounded(s5, h, "offset_y", roi.offset_y, rcs[6])
        s7 == TryIncrement(s6, h, "width", rcs[7])
        s8 == TrySetRounded(s7, h, "width", roi.width, rcs[8])
        s9 == TryIncrement(s8, h, "height", rcs[9])
        s10 == TrySetRounded(s9, h, "height", roi.height, rcs[10])
    IN OkActualRoi(s10, h, roi)
SetRoiNoClear(p, h, roi, rcs) ==
    LET s3 == TryIncrement(Run0(p), h, "width", rcs[1])
        s4 == TrySetRounded(s3, h, "width", roi.width, rcs[2])
        s5 == TryIncrement(s4, h, "height", rcs[3])
        s6 == TrySetRounded(s5, h, "height", roi.height, rcs[4])
        s7 == TryIncrement(s6, h, "offset_x", rcs[5])
        s8 == TrySetRounded(s7, h, "offset_x", roi.offset_x, rcs[6])
        s9 == TryIncrement(s8, h, "offset_y", rcs[7])
        s10 == TrySetRounded(s9, h, "offset_y", roi.offset_y, rcs[8])
    IN OkActualRoi(s10, h, roi)
SetRoiRelative(p, h, roi, rcs) ==
    LET s1 == TrySet(Run0(p), h, "offset_x", 0, rcs[1])
        s2 == TrySet(s1, h, "offset_y", 0, rcs[2])
        s3 == TryIncrement(s2, h, "width", rcs[3])
        s4 == TrySetRounded(s3, h, "width", roi.width, rcs[4])
        s5 == TryIncrement(s4, h, "height", rcs[5])
        s6 == TrySetRounded(s5, h, "height", roi.height, rcs[6])
        s7 == TryIncrement(s6, h, "offset_x", rcs[7])
        s8 == TrySetRounded(s7, h, "offset_x", p[h]["offset_x"] + roi.offset_x, rcs[8])
        s9 == TryIncrement(s8, h, "offset_y", rcs[9])
        s10 == TrySetRounded(s9, h, "offset_y", p[h]["offset_y"] + roi.offset_y, rcs[10])
    IN OkActualRoi(s10, h, roi)
SetRoiRollback(p, h, roi, rcs) ==
    LET s1 == TrySet(Run0(p), h, "offset_x", 0, rcs[1])
        s2 == TrySet(s1, h, "offset_y", 0, rcs[2])
        s3 == TryIncrement(s2, h, "width", rcs[3])
        s4 == TrySetRounded(s3, h, "width", roi.width, rcs[4])
        s5 == TryIncrement(s4, h, "height", rcs[5])
        s6 == TrySetRounded(s5, h, "height", roi.height, rcs[6])
        s7 == TryIncrement(s6, h, "offset_x", rcs[7])
        s8 == TrySetRounded(s7, h, "offset_x", roi.offset_x, rcs[8])
        s9 == TryIncrement(s8, h, "offset_y", rcs[9])
        s10 == TrySetRounded(s9, h, "offset_y", roi.offset_y, rcs[10])
    IN IF s10.ret.ok THEN OkActualRoi(s10, h, roi) ELSE [s10 EXCEPT !.regs = p]
SetRoiRun(p, h, roi, rcs) ==
    LET s1 == TrySet(Run0(p), h, "offset_x", 0, rcs[1])
        s2 == TrySet(s1, h, "offset_y", 0, rcs[2])
        s3 == TryIncrement(s2, h, "width", rcs[3])
        s4 == TrySetRounded(s3, h, "width", roi.width, rcs[4])
        s5 == TryIncrement(s4, h, "height", rcs[5])
        s6 == TrySetRounded(s5, h, "height", roi.height, rcs[6])
        s7 == TryIncrement(s6, h, "offset_x", rcs[7])
        s8 == TrySetRounded(s7, h, "offset_x", roi.offset_x, rcs[8])
        s9 == TryIncrement(s8, h, "offset_y", rcs[9])
        s10 == TrySetRounded(s9, h, "offset_y", roi.offset_y, rcs[10])
    IN OkActualRoi(s10, h, roi)

\* Camera::roi(&self) when the driver returns rcs
RoiRun(p, h, rcs) ==
    LET s1 == TryGet(Run0(p), h, "width", rcs[1])
        s2 == TryGet(s1, h, "height", rcs[2])
        s3 == TryGet(s2, h, "offset_x", rcs[3])
        s4 == TryGet(s3, h, "offset_y", rcs[4])
    IN IF s4.ret.ok
       THEN [s4 EXCEPT !.ret = Ok("Roi", h, MkRoi(s3.val, s4.val, s1.val, s2.val))]
       ELSE s4

\* the caller calls cam.set_roi(&roi); the fail-th driver call, if any,
\* returns rc
SetRoi(h, roi, fail, rc) ==
    /\ holder[h] = "Camera"
    /\ \E r \in {SetRoiRun(params, h, roi, Rcs(fail, rc))} :
       /\ fail <= Len(r.calls)
       /\ op' = [name |-> "set_roi", h |-> h, shared |-> 0, roi |-> roi,
                 before |-> [k \in RoiKeys |-> params[h][k]]]
       /\ params' = r.regs
       /\ calls' = r.calls
       /\ ret' = r.ret
    /\ UNCHANGED <<dev, autoBw, holder, images, readers, img, out, hist>>

\* the caller calls cam.roi()
GetRoi(h, fail, rc) ==
    /\ holder[h] = "Camera"
    /\ \E r \in {RoiRun(params, h, Rcs(fail, rc))} :
       /\ fail <= Len(r.calls)
       /\ op' = Op("roi", h)
       /\ params' = r.regs
       /\ calls' = r.calls
       /\ ret' = r.ret
    /\ UNCHANGED <<dev, autoBw, holder, images, readers, img, out, hist>>

\* a Camera was opened; the driver reports its ROI increments, one for the
\* horizontal registers and one for the vertical ones
InitRoi ==
    /\ LET h == CHOOSE g \in Handles : \A f \in Handles : g <= f IN
         /\ dev = [g \in Handles |->
                     [st |-> IF g = h THEN "open" ELSE "free", acq |-> FALSE, closes |-> 0]]
         /\ holder = [g \in Handles |-> IF g = h THEN "Camera" ELSE "none"]
         /\ \E incX \in 0..MaxInc, incY \in 0..MaxInc :
              params = [g \in Handles |-> [k \in AllKeys |->
                          IF g = h /\ k \in {"width:inc", "offset_x:inc"} THEN incX
                          ELSE IF g = h /\ k \in {"height:inc", "offset_y:inc"} THEN incY
                          ELSE 0]]
         /\ op = [name |-> "open_device", h |-> NullHandle, shared |-> 0]
         /\ calls = <<Call("xiOpenDevice", h, "", 0, XI_OK)>>
         /\ ret = Ok("Camera", h, 0)
    /\ autoBw = XI_ON
    /\ images = [h \in Handles |-> 0]
    /\ readers = [t \in Threads |-> Idle]
    /\ img = ZeroedImg
    /\ out = NoOut
    /\ hist = NoHist

\* the requests of the callers: an offset and a size each way
Rois == {MkRoi(a, b, b, a) : a \in Vals, b \in Vals}
\* the code a failing driver call of set_roi, roi and counter returns
FailCodes == {CHOOSE rc \in ErrCodes : \A other \in ErrCodes : rc <= other}

NextRoi ==
    \/ \E h \in Handles, roi \in Rois, fail \in 0..MaxCalls, rc \in FailCodes :
         SetRoi(h, roi, fail, rc)
    \/ \E h \in Handles, fail \in 0..MaxCalls, rc \in FailCodes : GetRoi(h, fail, rc)

SpecRoi == InitRoi /\ [][NextRoi]_vars

\* Camera::counter(&mut self, counter_selector) when the driver returns rcs
CounterNoRestore(p, h, counter_selector, rcs) ==
    LET s1 == TryGet(Run0(p), h, "counter_selector", rcs[1])
        s2 == TrySet(s1, h, "counter_selector", counter_selector, rcs[2])
        s3 == TryGet(s2, h, "counter_value", rcs[3])
    IN IF s3.ret.ok THEN [s3 EXCEPT !.ret = Ok("i32", h, s3.val)] ELSE s3
CounterReadFirst(p, h, counter_selector, rcs) ==
    LET s1 == TryGet(Run0(p), h, "counter_selector", rcs[1])
        prev_selector == s1.val
        s2 == TryGet(s1, h, "counter_value", rcs[2])
        result == s2.val
        s3 == TrySet(s2, h, "counter_selector", counter_selector, rcs[3])
        s4 == TrySet(s3, h, "counter_selector", prev_selector, rcs[4])
    IN IF s4.ret.ok THEN [s4 EXCEPT !.ret = Ok("i32", h, result)] ELSE s4
CounterRestoreOnError(p, h, counter_selector, rcs) ==
    LET s1 == TryGet(Run0(p), h, "counter_selector", rcs[1])
        prev_selector == s1.val
        s2 == TrySet(s1, h, "counter_selector", counter_selector, rcs[2])
        s3 == TryGet(s2, h, "counter_value", rcs[3])
        result == s3.val
        s4 == TrySet([s3 EXCEPT !.ret = Unit], h, "counter_selector", prev_selector, rcs[4])
    IN IF s3.ret.ok /\ s4.ret.ok THEN [s4 EXCEPT !.ret = Ok("i32", h, result)]
       ELSE IF s3.ret.ok THEN s4
       ELSE [s4 EXCEPT !.ret = s3.ret]
CounterRun(p, h, counter_selector, rcs) ==
    LET s1 == TryGet(Run0(p), h, "counter_selector", rcs[1])
        prev_selector == s1.val
        s2 == TrySet(s1, h, "counter_selector", counter_selector, rcs[2])
        s3 == TryGet(s2, h, "counter_value", rcs[3])
        result == s3.val
        s4 == TrySet(s3, h, "counter_selector", prev_selector, rcs[4])
    IN IF s4.ret.ok THEN [s4 EXCEPT !.ret = Ok("i32", h, result)] ELSE s4

\* the caller calls cam.counter(sel); the fail-th driver call, if any,
\* returns rc
Counter(h, sel, fail, rc) ==
    /\ holder[h] = "Camera"
    /\ \E r \in {CounterRun(params, h, sel, Rcs(fail, rc))} :
       /\ fail <= Len(r.calls)
       /\ op' = [name |-> "counter", h |-> h, shared |-> 0, sel |-> sel,
                 before |-> params[h]["counter_selector"]]
       /\ params' = r.regs
       /\ calls' = r.calls
       /\ ret' = r.ret
    /\ UNCHANGED <<dev, autoBw, holder, images, readers, img, out, hist>>

\* the caller calls cam.set_counter_selector(sel), generated by param!
SetCounterSelector(h, sel, rc) ==
    /\ holder[h] = "Camera"
    /\ \E r \in {SetParam(params, h, XI_PRM("counter_selector"), sel, rc)} :
       /\ op' = [name |-> "set_counter_selector", h |-> h, shared |-> 0, sel |-> sel]
       /\ params' = r.regs
       /\ calls' = r.calls
       /\ ret' = r.ret
    /\ UNCHANGED <<dev, autoBw, holder, images, readers, img, out, hist>>

\* a Camera was opened; the driver's counters hold what they counted and
\* counter_selector is as the driver starts it (0)
InitCounter ==
    /\ LET h == CHOOSE g \in Handles : \A f \in Handles : g <= f IN
         /\ dev = [g \in Handles |->
                     [st |-> IF g = h THEN "open" ELSE "free", acq |-> FALSE, closes |-> 0]]
         /\ holder = [g \in Handles |-> IF g = h THEN "Camera" ELSE "none"]
         /\ \E cnt \in [Selectors -> Vals] :
              params = [g \in Handles |-> [k \in AllKeys |->
                          IF g = h /\ (\E sel \in Selectors : k = CounterReg(sel))
                          THEN cnt[CHOOSE sel \in Selectors : k = CounterReg(sel)]
                          ELSE 0]]
         /\ op = [name |-> "open_device", h |-> NullHandle, shared |-> 0]
         /\ calls = <<Call("xiOpenDevice", h, "", 0, XI_OK)>>
         /\ ret = Ok("Camera", h, 0)
    /\ autoBw = XI_ON
    /\ images = [h \in Handles |-> 0]
    /\ readers = [t \in Threads |-> Idle]
    /\ img = ZeroedImg
    /\ out = NoOut
    /\ hist = NoHist

NextCounter ==
    \/ \E h \in Handles, sel \in Selectors, fail \in 0..MaxCalls, rc \in ErrCodes :
         Counter(h, sel, fail, rc)
    \/ \E h \in Handles, sel \in Selectors, rc \in RetCodes : SetCounterSelector(h, sel, rc)

SpecCounter == InitCounter /\ [][NextCounter]_vars

\* ---- claims on set_roi, roi and counter

\* the all-XI_OK driver
AllOk == Rcs(0, XI_OK)

\* C16: a successful set_roi(r) issues its driver writes in this order:
\* offset_x := 0, offset_y := 0, width := r.width rounded down to the width
\* increment, height, offset_x and offset_y likewise, each increment read
\* after the preceding write and before the write that uses it.
C16_SetRoiOrder ==
    (op.name = "set_roi" /\ ret.ok) =>
        LET r == op.roi
            inc(k) == params[op.h][k \o ":inc"]
            want == << <<"xiSetParam", "offset_x", 0>>,
                       <<"xiSetParam", "offset_y", 0>>,
                       <<"xiGetParam", "width:inc", 0>>,
                       <<"xiSetParam", "width", r.width - (r.width % inc("width"))>>,
                       <<"xiGetParam", "height:inc", 0>>,
                       <<"xiSetParam", "height", r.height - (r.height % inc("height"))>>,
                       <<"xiGetParam", "offset_x:inc", 0>>,
                       <<"xiSetParam", "offset_x", r.offset_x - (r.offset_x % inc("offset_x"))>>,
                       <<"xiGetParam", "offset_y:inc", 0>>,
                       <<"xiSetParam", "offset_y", r.offset_y - (r.offset_y % inc("offset_y"))>> >>
        IN /\ Len(calls) = Len(want)
           /\ \A i \in DOMAIN want :
                <<calls[i].fn, calls[i].key, calls[i].val>> = want[i]
C16_Witness ==
    /\ op.name = "set_roi"
    /\ ret.ok
    /\ op.roi.width = 1
    /\ params[op.h]["width:inc"] = 2
    /\ Len(calls) = MaxCalls
    /\ calls[4].val = 0
    /\ calls[6].val = op.roi.height
    /\ op.roi.height > 0

\* C17: when set_roi(r) returns Ok(a), a is the ROI applied on the device: a
\* roi() that follows at once returns the fields of a, and a.width = r.width
\* when r.width is a multiple of the width increment.
C17_SetRoiReturnsActual ==
    /\ []((op.name = "set_roi" /\ ret.ok) =>
            /\ \A k \in RoiKeys : params[op.h][k] = ret.val[k]
            /\ (op.roi.width % params[op.h]["width:inc"] = 0) =>
                   ret.val.width = op.roi.width)
    /\ [][(op.name = "set_roi" /\ ret.ok /\ op'.name = "roi" /\ ret'.ok /\ op'.h = op.h) =>
            ret'.val = ret.val]_vars
C17_Witness ==
    /\ op.name = "set_roi"
    /\ ret.ok
    /\ op.roi.width > 0
    /\ op.roi.width % params[op.h]["width:inc"] = 0
    /\ ret.val # op.roi
    /\ RoiRun(params, op.h, AllOk).ret = ret

\* C18: set_roi with the same request twice in a row, both succeeding,
\* returns the same actual ROI both times and leaves the device's registers
\* after the second call as after the first.
C18_SetRoiIdempotent ==
    [][(/\ op.name = "set_roi" /\ ret.ok
        /\ op'.name = "set_roi" /\ ret'.ok
        /\ op'.h = op.h /\ op'.roi = op.roi) =>
           (ret' = ret /\ params' = params)]_vars
C18_Witness ==
    /\ op.name = "set_roi"
    /\ ret.ok
    /\ ret.val # op.roi
    /\ ret.val.offset_x > 0
    /\ SetRoiRun(params, op.h, op.roi, AllOk).ret = ret
    /\ SetRoiRun(params, op.h, op.roi, AllOk).regs = params

\* C19: after counter(sel) has read a counter sel other than the one selected
\* before the call, the device's counter_selector is what it was before the
\* call.
C19_CounterRestoresSelector ==
    [][(/\ op'.name = "counter" /\ ret'.ok
        /\ op'.sel # params[op'.h]["counter_selector"]) =>
           params'[op'.h]["counter_selector"] = params[op'.h]["counter_selector"]]_vars
C19_Witness ==
    /\ op.name = "counter"
    /\ ret.ok
    /\ op.sel # params[op.h]["counter_selector"]
    /\ calls[2].val = op.sel
    /\ calls[4].val = params[op.h]["counter_selector"]
    /\ ret.val = params[op.h][CounterReg(op.sel)]
    /\ ret.val # params[op.h][CounterReg(params[op.h]["counter_selector"])]

\* C20: every driver call the wrapper makes that returns a code other than
\* XI_OK makes the wrapper operation return that code to its caller: the call
\* is not made again, the operation does not panic, and the code is not
\* dropped.
C20_NoErrorSuppressed ==
    \A i \in DOMAIN calls :
        ~IsOk(calls[i].rc) =>
            /\ ret = Err(calls[i].rc)
            /\ \A j \in DOMAIN calls :
                 j > i => <<calls[j].fn, calls[j].h, calls[j].key, calls[j].val>>
                              # <<calls[i].fn, calls[i].h, calls[i].key, calls[i].val>>

\* ---- setting exposure and gain while streaming, and reading them back

\* the f32 values the callers pass, in ticks
F32Vals == (0 - 1)..MaxTicks

\* the increments a device may report for exposure, in ticks: none (0),
\* fractions of a microsecond, whole microseconds, and more
MaxIncTicks == 6

\* the value last set through the AcquisitionBuffer, per register: none yet
NoneSet == [pc |-> "stream", exposure |-> << >>, gain |-> << >>]

\* a Camera was opened and start_acquisition returned its AcquisitionBuffer;
\* the device reports some increment for exposure and some for gain
InitStream ==
    /\ LET h == CHOOSE g \in Handles : \A f \in Handles : g <= f IN
         /\ dev = [g \in Handles |->
                     [st |-> IF g = h THEN "open" ELSE "free", acq |-> (g = h), closes |-> 0]]
         /\ holder = [g \in Handles |-> IF g = h THEN "AcquisitionBuffer" ELSE "none"]
         /\ \E expInc \in 0..MaxIncTicks, gainInc \in 0..MaxInc :
              params = [g \in Handles |-> [k \in AllKeys |->
                          IF g = h /\ k = "exposure:inc" THEN expInc
                          ELSE IF g = h /\ k = "gain:inc" THEN gainInc
                          ELSE 0]]
         /\ op = [name |-> "start_acquisition", h |-> h, shared |-> 0]
         /\ calls = <<Call("xiStartAcquisition", h, "", 0, XI_OK)>>
         /\ ret = Ok("AcquisitionBuffer", h, 0)
    /\ autoBw = XI_ON
    /\ images = [h \in Handles |-> 0]
    /\ readers = [t \in Threads |-> Idle]
    /\ img = ZeroedImg
    /\ out = NoOut
    /\ hist = NoneSet

StreamNext ==
    \/ \E h \in Handles, s \in BufferSetters, v \in F32Vals, rc \in RetCodes : BufferSet(h, s, v, rc)
    \/ \E h \in Handles, rc \in RetCodes : StopAcquisition(h, rc)
    \/ \E h \in Handles, rc \in RetCodes : StartAcquisition(h, rc)
    \/ \E h \in Handles, k \in AnalogKeys, rc \in RetCodes : CameraGet(h, k, rc)

\* the f32 the caller handed to set_exposure / set_gain is remembered for the
\* register when the setter returned Ok, and forgotten when it returned an
\* error; every other operation leaves what is remembered
LastSet ==
    hist' = IF op'.name = "set_exposure"
            THEN [hist EXCEPT !.exposure = IF ret'.ok THEN <<op'.v>> ELSE << >>]
            ELSE IF op'.name = "set_gain"
            THEN [hist EXCEPT !.gain = IF ret'.ok THEN <<op'.v>> ELSE << >>]
            ELSE hist

NextStream == StreamNext /\ LastSet /\ UNCHANGED <<readers, img, out>>

SpecStream == InitStream /\ [][NextStream]_vars

Abs(n) == IF n >= 0 THEN n ELSE 0 - n

\* C21: after an allow-listed parameter (exposure or gain) was set to V
\* through the AcquisitionBuffer, reading that parameter back (the
\* AcquisitionBuffer has no getter: by Camera::exposure() / Camera::gain() once
\* stop_acquisition has handed the Camera back), with no other set in between,
\* yields a value within the driver's reported increment of V.
C21_StreamingRoundTrip ==
    \A k \in AnalogKeys :
        (/\ op.name = "Camera::param"
         /\ ret.ok
         /\ calls[1].key = k
         /\ hist[k] # << >>) =>
            Abs(ret.val - hist[k][1]) <= params[op.h][k \o ":inc"]

\* ---- the end-to-end program: open, set exposure, start, fetch one frame,
\* ---- compare its size with the ROI, stop, close

\* Image::width(&self), Image::height(&self)
ImageHeightAsWidth(i) == i.height
ImageWidth(i) == i.width
ImageHeight(i) == i.height

\* cam.set_exposure(10000.0), in ticks
ExposureTicks == 10000 * Frac
\* for i in 0..10
Fetches == 10

\* the programs that use the library: examples/xi_sample.rs main,
\* tests::start_stop_acquisition, and the end-to-end scenario; each with the
\* device it opens and the timeout of its fetches
XiSample == [name |-> "xi_sample", dev_id |-> << >>, timeout |-> << >>]
StartStop == [name |-> "start_stop_acquisition", dev_id |-> << >>, timeout |-> << >>]
Scenario == [name |-> "scenario", dev_id |-> <<0>>, timeout |-> <<5000>>]
Programs == {XiSample, StartStop, Scenario}

\* where main of xi_sample goes from pc, the step there having ended well
\* (ok) or not, with n images fetched and dropped so far
AfterXiSample(pc, ok, n) ==
    CASE pc = "open" -> IF ok THEN "set_exposure" ELSE "exit"
      [] pc = "set_exposure" -> IF ok THEN "start" ELSE "unwind"
      [] pc = "start" -> IF ok THEN "fetch" ELSE "exit"
      [] pc = "fetch" -> "blocked"
      [] pc = "blocked" -> IF ok THEN "pixel" ELSE "unwind"
      [] pc = "pixel" -> IF ok THEN "check" ELSE "panic"
      [] pc = "check" -> "drop_image"
      [] pc = "drop_image" -> IF n + 1 < Fetches THEN "fetch" ELSE "unwind"
      [] pc = "panic" -> "unwind"
      [] pc = "unwind" -> IF ok THEN "done" ELSE "exit"

\* where tests::start_stop_acquisition goes from pc
AfterStartStop(pc, ok) ==
    CASE pc = "open" -> IF ok THEN "start" ELSE "exit"
      [] pc = "start" -> IF ok THEN "stop" ELSE "exit"
      [] pc = "stop" -> IF ok THEN "close" ELSE "exit"
      [] pc = "close" -> "done"

\* where the end-to-end scenario goes from pc
AfterScenario(pc, ok) ==
    CASE pc = "open" -> IF ok THEN "set_exposure" ELSE "exit"
      [] pc = "set_exposure" -> IF ok THEN "start" ELSE "unwind"
      [] pc = "start" -> IF ok THEN "fetch" ELSE "exit"
      [] pc = "fetch" -> "blocked"
      [] pc = "blocked" -> IF ok THEN "check" ELSE "unwind"
      [] pc = "check" -> "drop_image"
      [] pc = "drop_image" -> "stop"
      [] pc = "stop" -> IF ok THEN "close" ELSE "exit"
      [] pc = "close" -> "done"
      [] pc = "unwind" -> "exit"

After(ok) ==
    CASE hist.prog = XiSample.name -> AfterXiSample(hist.pc, ok, hist.n)
      [] hist.prog = StartStop.name -> AfterStartStop(hist.pc, ok)
      [] hist.prog = Scenario.name -> AfterScenario(hist.pc, ok)

\* the frame xiGetImage hands out on XI_OK: a buffer, and the width and height
\* of the ROI the device streams
DrvFrame(p, h, bp) ==
    [ZeroedImg EXCEPT !.bp = bp, !.width = p[h]["width"], !.height = p[h]["height"]]

\* the program goes on, having made the driver calls of the step it took
Goto(ok) == [hist EXCEPT !.pc = After(ok), !.trace = @ \o calls']

\* xiapi::open_device(..)?
ScenOpen(prog, rc) ==
    /\ hist.pc = "open"
    /\ hist.prog = prog.name
    /\ OpenDevice(prog.dev_id, rc)
    /\ hist' = [Goto(IsOk(rc)) EXCEPT !.h = ret'.h]
    /\ UNCHANGED <<readers, img, out>>

\* cam.set_exposure(10000.0)?
ScenSetExposure(rc) ==
    /\ hist.pc = "set_exposure"
    /\ CameraSet(hist.h, "exposure", ExposureTicks, rc)
    /\ hist' = Goto(IsOk(rc))
    /\ UNCHANGED <<readers, img, out>>

\* cam.start_acquisition()?
ScenStart(rc) ==
    /\ hist.pc = "start"
    /\ StartAcquisition(hist.h, rc)
    /\ hist' = [Goto(IsOk(rc)) EXCEPT
                   !.roi = <<params[hist.h]["width"], params[hist.h]["height"]>>]
    /\ UNCHANGED <<readers, img, out>>

\* the thread enters next_image(timeout) and blocks in xiGetImage
ScenFetchCall(prog) ==
    /\ hist.pc = "fetch"
    /\ hist.prog = prog.name
    /\ hist' = [hist EXCEPT !.pc = After(TRUE), !.timeout = prog.timeout]
    /\ UNCHANGED <<dev, params, autoBw, holder, images, readers, op, calls, ret, img, out>>

\* xiGetImage returns: a frame arrived (XI_OK), the timeout elapsed
\* (XI_TIMEOUT) or the driver reports another error
ScenFetchReturn(rc, bp) ==
    /\ hist.pc = "blocked"
    /\ NextImage(hist.h, hist.timeout, rc)
    /\ img' = IF IsOk(rc) THEN DrvFrame(params, hist.h, bp) ELSE img
    /\ hist' = Goto(IsOk(rc))
    /\ UNCHANGED <<readers, out>>

\* let pixel = image.pixel(0, 0); None => unreachable!(..)
ScenPixel ==
    /\ hist.pc = "pixel"
    /\ out' = PixelOf(img, 0, 0)
    /\ hist' = [hist EXCEPT !.pc = After(out'.kind = "Some")]
    /\ UNCHANGED <<dev, params, autoBw, holder, images, readers, op, calls, ret, img>>

\* image.width(), image.height()
ScenCheck ==
    /\ hist.pc = "check"
    /\ out' = [fn |-> "width_height", kind |-> "u32", x |-> ImageWidth(img),
               y |-> ImageHeight(img), addr |-> NullPtr, len |-> 0]
    /\ hist' = [hist EXCEPT !.pc = After(TRUE)]
    /\ UNCHANGED <<dev, params, autoBw, holder, images, readers, op, calls, ret, img>>

\* the image goes out of scope: at the end of the loop body, or as the panic
\* unwinds
ScenDropImage ==
    /\ hist.pc \in {"drop_image", "panic"}
    /\ DropImage(hist.h)
    /\ hist' = [Goto(TRUE) EXCEPT
                   !.n = IF hist.pc = "drop_image" THEN @ + 1 ELSE @,
                   !.panicked = (hist.pc = "panic")]
    /\ UNCHANGED <<readers, img, out>>

\* acq.stop_acquisition()?
ScenStop(rc) ==
    /\ hist.pc = "stop"
    /\ StopAcquisition(hist.h, rc)
    /\ hist' = Goto(IsOk(rc))
    /\ UNCHANGED <<readers, img, out>>

\* the Camera stop_acquisition returned goes out of scope
ScenClose(rcClose) ==
    /\ hist.pc = "close"
    /\ DropCamera(hist.h, rcClose)
    /\ hist' = Goto(TRUE)
    /\ UNCHANGED <<readers, img, out>>

\* main returns, with Ok(()) at its end or with the Err of a `?`, or
\* unwinds from the panic: what it still holds is dropped
ScenUnwind(rcClose) ==
    /\ hist.pc = "unwind"
    /\ \/ DropCamera(hist.h, rcClose)
       \/ DropBuffer(hist.h, rcClose)
    /\ hist' = Goto(ret.ok /\ ~hist.panicked)
    /\ UNCHANGED <<readers, img, out>>

\* nothing is open; each device streams the ROI its registers hold
InitScenario ==
    /\ dev = [h \in Handles |-> [st |-> "free", acq |-> FALSE, closes |-> 0]]
    /\ \E w \in 1..MaxDim, hgt \in 1..MaxDim :
         params = [h \in Handles |-> [k \in SessionKeys |->
                     IF k = "width" THEN w ELSE IF k = "height" THEN hgt ELSE 0]]
    /\ readers = [t \in Threads |-> Idle]
    /\ autoBw = XI_ON
    /\ holder = [h \in Handles |-> "none"]
    /\ images = [h \in Handles |-> 0]
    /\ op = [name |-> "init", h |-> NullHandle, shared |-> 0]
    /\ calls = << >>
    /\ ret = Unit
    /\ img = ZeroedImg
    /\ out = NoOut
    /\ \E prog \in Programs :
         hist = [prog |-> prog.name, pc |-> "open", trace |-> << >>, h |-> NullHandle,
                 roi |-> <<0, 0>>, timeout |-> << >>, n |-> 0, panicked |-> FALSE]

NextScenario ==
    \/ \E prog \in Programs, rc \in RetCodes : ScenOpen(prog, rc)
    \/ \E rc \in RetCodes : ScenSetExposure(rc)
    \/ \E rc \in RetCodes : ScenStart(rc)
    \/ \E prog \in Programs : ScenFetchCall(prog)
    \/ \E rc \in RetCodes, bp \in Ptrs : ScenFetchReturn(rc, bp)
    \/ ScenPixel
    \/ ScenCheck
    \/ ScenDropImage
    \/ \E rc \in RetCodes : ScenStop(rc)
    \/ \E rc \in RetCodes : ScenClose(rc)
    \/ \E rc \in RetCodes : ScenUnwind(rc)

\* the driver returns from every call, and the thread goes on: no step of the
\* program waits for anything else
SpecScenario == InitScenario /\ [][NextScenario]_vars /\ WF_vars(NextScenario)

\* no driver call of the run so far failed
NoCallFailed == \A i \in DOMAIN hist.trace : IsOk(hist.trace[i].rc)

\* C22: in a run where no driver call fails, the scenario open_device(0),
\* set_exposure, start_acquisition, next_image, stop_acquisition, drop of the
\* Camera completes without error, the driver sees open, set parameter, begin
\* acquisition, fetch frame, end acquisition, close in that order, and the
\* frame's width and height are those of the ROI on the device at the start.
C22_EndToEnd ==
    /\ []((hist.prog = Scenario.name /\ NoCallFailed) =>
            (hist.pc \notin {"unwind", "exit"} /\ ret.ok /\ ~hist.panicked))
    /\ []((hist.prog = Scenario.name /\ hist.pc = "done" /\ NoCallFailed) =>
            /\ [i \in DOMAIN hist.trace |-> hist.trace[i].fn]
                 = <<"xiOpenDevice", "xiSetParam", "xiStartAcquisition",
                     "xiGetImage", "xiStopAcquisition", "xiCloseDevice">>
            /\ \A i \in DOMAIN hist.trace : hist.trace[i].h = hist.h
            /\ <<out.x, out.y>> = hist.roi
            /\ hist.roi = <<params[hist.h]["width"], params[hist.h]["height"]>>
            /\ dev[hist.h].st = "closed" /\ ~dev[hist.h].acq)
    /\ <>(hist.pc \in {"done", "exit"})
C22_Witness ==
    /\ hist.prog = Scenario.name
    /\ hist.pc = "done"
    /\ NoCallFailed
    /\ Len(hist.trace) = 6
    /\ hist.timeout = <<5000>>
    /\ hist.trace[2].val = ExposureTicks
    /\ out.x = MaxDim
    /\ out.y = 1

\* C23: next_image eventually returns; it yields an Image only if the driver
\* returned XI_OK, yields the driver's code (XI_TIMEOUT when no frame came in
\* time) and no Image otherwise; with no timeout given, u32::MAX is passed.
C23_NextImageReturns ==
    /\ [](op.name = "next_image" =>
            /\ Len(calls) = 1
            /\ calls[1].fn = "xiGetImage"
            /\ calls[1].val = (IF op.timeout = << >> THEN U32Max ELSE op.timeout[1])
            /\ (ret.ok /\ ret.kind = "Image") <=> IsOk(calls[1].rc)
            /\ ~IsOk(calls[1].rc) =>
                   (ret = Err(calls[1].rc) /\ images[op.h] = op.shared)
            /\ IsOk(calls[1].rc) => images[op.h] = op.shared + 1)
    /\ [][(op'.name = "next_image" /\ ~ret'.ok) => (img' = img /\ images' = images)]_vars
    /\ (hist.pc = "blocked") ~> (hist.pc # "blocked")
C23_Witness ==
    /\ op.name = "next_image"
    /\ op.timeout = <<5000>>
    /\ calls[1].val = 5000
    /\ calls[1].rc = 10
    /\ ret = Err(10)
    /\ images[op.h] = 0

\* ---- the device between the driver calls of set_roi

\* the sensor's size each way: the most offset + size may be
SensorMax == MaxVal

\* offset + size is within the sensor each way
ValidRoi(roi) ==
    /\ roi.offset_x + roi.width <= SensorMax
    /\ roi.offset_y + roi.height <= SensorMax

\* the ROI registers of h
RoiOf(p, h) == [k \in RoiKeys |-> p[h][k]]

\* the registers after the first n of the driver calls cs, made on registers p
RECURSIVE RegsAfter(_, _, _)
RegsAfter(p, cs, n) ==
    IF n = 0 THEN p
    ELSE LET c == cs[n]
             q == RegsAfter(p, cs, n - 1)
         IN IF c.fn = "xiSetParam" THEN DrvSet(q, c.h, c.key, c.val, c.rc) ELSE q

\* the request roi, rounded as set_roi rounds it, fits on the sensor; where
\* the driver reports an increment of 0 the rounding has no value (set_roi
\* panics) and there is no rounded request to fit
Fits(p, h, roi) ==
    \E r \in {SetRoiRun(p, h, roi, AllOk)} : r.ret.ok /\ ValidRoi(r.ret.val)

\* C24: if the requested ROI, rounded, fits on the sensor and the ROI on the
\* device before the call is valid, then after every driver write of set_roi
\* offset_x + width and offset_y + height are within the sensor maximum.
C24_NoInvalidIntermediateRoi ==
    [][(/\ op'.name = "set_roi"
        /\ ValidRoi(RoiOf(params, op'.h))
        /\ Fits(params, op'.h, op'.roi)) =>
           /\ \A n \in 0..Len(calls') : ValidRoi(RoiOf(RegsAfter(params, calls', n), op'.h))
           /\ params' = RegsAfter(params, calls', Len(calls'))]_vars
C24_Witness ==
    /\ op.name = "set_roi"
    /\ ret.ok
    /\ ValidRoi(op.before)
    /\ op.before.width = SensorMax
    /\ op.before.offset_y = SensorMax
    /\ RoiOf(params, op.h) = op.roi
    /\ op.roi.offset_x = SensorMax
    /\ op.roi.height = SensorMax
    /\ ValidRoi(op.roi)

\* m is the largest multiple of inc that is not greater than v
LargestMultiple(m, v, inc) ==
    /\ m <= v
    /\ \E q \in 0..v : m = q * inc
    /\ \A q \in 0..v : q * inc <= v => q * inc <= m

\* C25: for every requested value v and every driver-reported increment i,
\* i = 0 and i > v included, the rounding of set_roi, v - (v mod i), completes
\* without arithmetic fault and yields the largest multiple of i not above v.
C25_RoundingTotal ==
    op.name = "set_roi" =>
        /\ ret.kind # "panic"
        /\ ret.ok => \A k \in RoiKeys :
                        LargestMultiple(ret.val[k], op.roi[k], params[op.h][k \o ":inc"])

\* set_roi returned the code of a failing driver call: that call was the last
\* one made, the calls are the first ones of the sequence, and every write
\* made before it stands
ReturnsAtOnce(p, q, cs, r, h, roi) ==
    LET n == Len(cs)
        all == SetRoiRun(p, h, roi, AllOk).calls
    IN /\ n >= 1
       /\ ~IsOk(cs[n].rc)
       /\ \A i \in 1..(n - 1) : IsOk(cs[i].rc)
       /\ r = Err(cs[n].rc)
       /\ \A i \in 1..n : i <= Len(all) =>
            <<cs[i].fn, cs[i].key, cs[i].val>> = <<all[i].fn, all[i].key, all[i].val>>
       /\ q = RegsAfter(p, cs, n)

\* the driver calls of set_roi by number: the width and height steps and the
\* write of offset_x are calls 3 to 8, the offset_y steps calls 9 and 10
SizeSteps == 3..8
OffsetYSteps == 9..MaxCalls

\* C26 as stated: a failing driver call makes set_roi return its code at once
\* with no further call and no rollback, and after a failure past the first
\* two steps the offsets are at 0 and the size is the previous or the partly
\* updated one.
C26_FailureOffsetsAtZero ==
    [][(op'.name = "set_roi" /\ ret'.kind = "Err") =>
         /\ ReturnsAtOnce(params, params', calls', ret', op'.h, op'.roi)
         /\ Len(calls') >= 3 =>
              /\ params'[op'.h]["offset_x"] = 0
              /\ params'[op'.h]["offset_y"] = 0]_vars

\* C26, amended: a failing driver call makes set_roi return its code at once
\* with no further call and no rollback; after a failure in the width and
\* height steps or in the write of offset_x the offsets are at 0 and each size
\* is the previous or the new rounded one; after a failure in the offset_y
\* steps offset_x holds its new rounded value, offset_y is 0 and both sizes
\* are the new ones; after a failure of the first call nothing was written.
C26_FailureLeavesPartialRoi ==
    [][(op'.name = "set_roi" /\ ret'.kind = "Err") =>
         LET h == op'.h
             n == Len(calls')
             now == RoiOf(params', h)
             was == RoiOf(params, h)
         IN /\ ReturnsAtOnce(params, params', calls', ret', h, op'.roi)
            /\ n = 1 => now = was
            /\ n = 2 => now = [was EXCEPT !.offset_x = 0]
            /\ n \in SizeSteps =>
                 /\ now.offset_x = 0 /\ now.offset_y = 0
                 /\ now.width = (IF n > 4 THEN calls'[4].val ELSE was.width)
                 /\ now.height = (IF n > 6 THEN calls'[6].val ELSE was.height)
            /\ n \in OffsetYSteps =>
                 now = MkRoi(calls'[8].val, 0, calls'[4].val, calls'[6].val)]_vars
C26_Witness ==
    /\ op.name = "set_roi"
    /\ ret.kind = "Err"
    /\ Len(calls) = MaxCalls
    /\ params[op.h]["offset_x"] > 0
    /\ params[op.h]["offset_y"] = 0
    /\ op.roi.offset_y > 0
    /\ op.before.offset_x = 0
    /\ RoiOf(params, op.h) # op.before

\* C27: when all four driver calls succeed, counter(sel) makes them in the
\* order read selector, write selector := sel, read counter value, write
\* selector := the saved value, and returns the device's value of counter sel.
C27_CounterOrderAndValue ==
    (op.name = "counter" /\ ret.ok) =>
        /\ [i \in DOMAIN calls |-> <<calls[i].fn, calls[i].key, calls[i].val>>]
             = << <<"xiGetParam", "counter_selector", 0>>,
                  <<"xiSetParam", "counter_selector", op.sel>>,
                  <<"xiGetParam", "counter_value", 0>>,
                  <<"xiSetParam", "counter_selector", op.before>> >>
        /\ ret.kind = "i32"
        /\ ret.val = params[op.h][CounterReg(op.sel)]
C27_Witness ==
    /\ op.name = "counter"
    /\ ret.ok
    /\ Len(calls) = 4
    /\ op.sel # op.before
    /\ ret.val = params[op.h][CounterReg(op.sel)]
    /\ ret.val # params[op.h][CounterReg(op.before)]
    /\ ret.val > 0

\* C28: if the read of the counter value inside counter(sel) fails after the
\* selector was switched to sel, counter returns the error without the
\* restoring write and the selector is left at sel; if the first read of the
\* selector or the first write of it fails, the selector is unchanged.
C28_CounterErrorPaths ==
    (op.name = "counter" /\ ret.kind = "Err") =>
        LET n == Len(calls) IN
        /\ n \in 1..4
        /\ ret = Err(calls[n].rc)
        /\ ~IsOk(calls[n].rc)
        /\ \A i \in 1..(n - 1) : IsOk(calls[i].rc)
        /\ n = 3 =>
             /\ <<calls[2].fn, calls[2].key, calls[2].val>>
                  = <<"xiSetParam", "counter_selector", op.sel>>
             /\ <<calls[3].fn, calls[3].key>> = <<"xiGetParam", "counter_value">>
             /\ params[op.h]["counter_selector"] = op.sel
        /\ n \in {1, 2} => params[op.h]["counter_selector"] = op.before
C28_Witness ==
    /\ op.name = "counter"
    /\ ret.kind = "Err"
    /\ Len(calls) = 3
    /\ op.sel # op.before
    /\ params[op.h]["counter_selector"] = op.sel

\* ---- Camera::roi call by call, while the ROI of the device changes under it

\* no roi() is under way
NoQuery == [pc |-> "idle", got |-> << >>, cs |-> << >>, seen |-> {}, changed |-> FALSE]

\* the caller enters cam.roi(): nothing is read yet
TornBegin(h) ==
    /\ holder[h] = "Camera"
    /\ hist.pc = "idle"
    /\ hist' = [pc |-> "reading", got |-> << >>, cs |-> << >>,
                seen |-> {RoiOf(params, h)}, changed |-> FALSE]
    /\ UNCHANGED <<dev, params, autoBw, holder, images, readers, op, calls, ret, img, out>>

\* Roi { offset_x, offset_y, width, height } from the values read, in the
\* order roi() reads them
RoiFromReads(got) == MkRoi(got[3], got[4], got[1], got[2])

\* the next of self.width()?, self.height()?, self.offset_x()?,
\* self.offset_y()?; after the last one, Ok(result)
TornRead(h, rc) ==
    /\ holder[h] = "Camera"
    /\ hist.pc = "reading"
    /\ \E r \in {GetParam(params, h, XI_PRM(RoiReads[Len(hist.got) + 1]), rc)} :
         LET got == Append(hist.got, r.ret.val)
             cs == hist.cs \o r.calls
             last == Len(got) = Len(RoiReads)
         IN IF r.ret.ok /\ ~last
            THEN /\ hist' = [hist EXCEPT !.got = got, !.cs = cs]
                 /\ UNCHANGED <<op, calls, ret>>
            ELSE /\ hist' = [hist EXCEPT !.pc = "idle", !.got = got, !.cs = cs]
                 /\ op' = Op("roi", h)
                 /\ calls' = cs
                 /\ ret' = IF r.ret.ok THEN Ok("Roi", h, RoiFromReads(got)) ELSE r.ret
    /\ UNCHANGED <<dev, params, autoBw, holder, images, readers, img, out>>

\* the ROI registers of the device change from outside the calling thread
\* (another process, or the device itself)
ExternalChange(h, roi) ==
    /\ dev[h].st = "open"
    /\ RoiOf(params, h) # roi
    /\ params' = [params EXCEPT ![h] = [k \in DOMAIN params[h] |->
                                           IF k \in RoiKeys THEN roi[k] ELSE params[h][k]]]
    /\ hist' = IF hist.pc = "reading"
               THEN [hist EXCEPT !.seen = @ \cup {roi}, !.changed = TRUE]
               ELSE hist
    /\ UNCHANGED <<dev, autoBw, holder, images, readers, op, calls, ret, img, out>>

\* a Camera was opened
InitTorn ==
    /\ LET h == CHOOSE g \in Handles : \A f \in Handles : g <= f IN
         /\ dev = [g \in Handles |->
                     [st |-> IF g = h THEN "open" ELSE "free", acq |-> FALSE, closes |-> 0]]
         /\ holder = [g \in Handles |-> IF g = h THEN "Camera" ELSE "none"]
         /\ op = [name |-> "open_device", h |-> NullHandle, shared |-> 0]
         /\ calls = <<Call("xiOpenDevice", h, "", 0, XI_OK)>>
         /\ ret = Ok("Camera", h, 0)
    /\ params = [g \in Handles |-> [k \in AllKeys |-> 0]]
    /\ autoBw = XI_ON
    /\ images = [h \in Handles |-> 0]
    /\ readers = [t \in Threads |-> Idle]
    /\ img = ZeroedImg
    /\ out = NoOut
    /\ hist = NoQuery

NextTorn ==
    \/ \E h \in Handles : TornBegin(h)
    \/ \E h \in Handles, rc \in RetCodes : TornRead(h, rc)
    \/ \E h \in Handles, roi \in Rois : ExternalChange(h, roi)

SpecTorn == InitTorn /\ [][NextTorn]_vars

\* C29: roi() reads width, height, offset_x and offset_y in four separate
\* driver calls, each value being the register's at the time of its call;
\* when no external change of the ROI falls between the calls it returns the
\* device's ROI, and when one does the tuple may be the device's ROI at no
\* single instant (the witness).
C29_RoiReadsSeparately ==
    /\ []((op.name = "roi" /\ ret.ok /\ hist.pc = "idle") =>
            /\ [i \in DOMAIN calls |-> <<calls[i].fn, calls[i].key>>]
                 = << <<"xiGetParam", "width">>, <<"xiGetParam", "height">>,
                      <<"xiGetParam", "offset_x">>, <<"xiGetParam", "offset_y">> >>
            /\ \A k \in RoiKeys : \E r \in hist.seen : ret.val[k] = r[k]
            /\ ~hist.changed => hist.seen = {ret.val})
    /\ [][(op'.name = "roi" /\ ret'.ok /\ hist.pc = "reading" /\ hist'.pc = "idle"
             /\ ~hist'.changed) =>
            /\ ret'.val = RoiOf(params', op'.h)
            /\ ret' = RoiRun(params, op'.h, AllOk).ret]_vars
C29_Witness ==
    /\ op.name = "roi"
    /\ ret.ok
    /\ hist.pc = "idle"
    /\ hist.changed
    /\ Len(calls) = 4
    /\ ret.val \notin hist.seen

\* ---- the auto-bandwidth toggle around the open

\* C30: open_device_manual_bandwidth calls the driver open only after the
\* auto-bandwidth toggle was set to OFF successfully (if that set fails it
\* returns the error without an open), and on every path on which it then
\* returns (open succeeded, open failed, set_limit_bandwidth failed) the
\* toggle was set back to ON, right after the open.
C30_ToggleAroundOpen ==
    op.name = "open_device_manual_bandwidth" =>
        /\ <<calls[1].fn, calls[1].h, calls[1].key, calls[1].val>>
             = <<"xiSetParam", NullHandle, "auto_bandwidth_calculation", XI_OFF>>
        /\ \A i \in DOMAIN calls :
             calls[i].fn = "xiOpenDevice" => (i = 2 /\ IsOk(calls[1].rc))
        /\ ~IsOk(calls[1].rc) => (calls = <<calls[1]>> /\ ret = Err(calls[1].rc))
        /\ IsOk(calls[1].rc) =>
             /\ Len(calls) >= 3
             /\ calls[2].fn = "xiOpenDevice"
             /\ <<calls[3].fn, calls[3].h, calls[3].key, calls[3].val>>
                  = <<"xiSetParam", NullHandle, "auto_bandwidth_calculation", XI_ON>>
             /\ ret.kind # "panic" => (IsOk(calls[3].rc) /\ autoBw = XI_ON)
             /\ (ret.kind = "Err" /\ ~IsOk(calls[2].rc)) => ret = Err(calls[2].rc)
C30_Witness ==
    /\ op.name = "open_device_manual_bandwidth"
    /\ Len(calls) = 5
    /\ IsOk(calls[2].rc)
    /\ calls[4].key = "limit_bandwidth"
    /\ ret = Err(calls[4].rc)
    /\ autoBw = XI_ON

\* ---- the session after a fetch that failed

\* C31: a next_image call that fails (timeout or another driver error)
\* produces no Image and leaves the session as it was: the AcquisitionBuffer
\* is still held with the acquisition active, next_image can be called again,
\* and the allow-listed setters and stop_acquisition can be called as before
\* the call (that is, unless an Image fetched earlier still borrows the
\* buffer).
C31_FailedFetchLeavesSession ==
    /\ []((op.name = "next_image" /\ ~ret.ok) =>
            /\ ret = Err(calls[1].rc)
            /\ images[op.h] = op.shared
            /\ holder[op.h] = "AcquisitionBuffer"
            /\ dev[op.h].st = "open"
            /\ dev[op.h].acq
            /\ \A t \in Timeouts, rc \in ErrCodes : ENABLED NextImage(op.h, t, rc)
            /\ images[op.h] < MaxImages =>
                   \A t \in Timeouts : ENABLED NextImage(op.h, t, XI_OK)
            /\ ~Borrowed(op.h) =>
                   /\ \A s \in BufferSetters, rc \in RetCodes :
                        ENABLED BufferSet(op.h, s, 0, rc)
                   /\ \A rc \in RetCodes : ENABLED StopAcquisition(op.h, rc))
    /\ [][(op'.name = "next_image" /\ ~ret'.ok) =>
            UNCHANGED <<dev, params, autoBw, holder, images>>]_vars
C31_Witness ==
    /\ op.name = "next_image"
    /\ ret = Err(10)
    /\ op.timeout = <<5000>>
    /\ holder[op.h] = "AcquisitionBuffer"
    /\ dev[op.h].acq
    /\ images[op.h] = 0
    /\ ENABLED StopAcquisition(op.h, XI_OK)
    /\ \A s \in BufferSetters : ENABLED BufferSet(op.h, s, 0, XI_OK)

\* ---- the element pixel hands out, against the bytes of the frame

\* C32: for every view with a nonzero declared byte length, every element
\* type T of size 1 or 2 and every pixel format, an element pixel(x, y)
\* returns lies inside the buffer: offset + element size <= declared byte
\* length.
C32_PixelInsideBuffer ==
    (out.fn = "pixel" /\ out.kind = "Some" /\ DeliveredFrame(img) /\ img.esz \in {1, 2}) =>
        (out.addr - img.bp) + img.esz <= img.bp_size

====
